---- MODULE Spec2Model ----
(***************************************************************************)
(* The incremental fetch-and-merge pipeline of portfolio-manager:          *)
(* backend/data_pipeline/tasks.py (batch driver, per-series workflow) and  *)
(* backend/data_pipeline/data_sources/base.py (DataFetcher: the retrying   *)
(* HTTP request, save_metadata and save_series_data with its staging       *)
(* table, the insert-only MERGE and the last_fetched_date watermark).      *)
(*                                                                         *)
(* Dates are day numbers; the code compares them as '%Y-%m-%d' strings,    *)
(* whose lexicographic order is the order of the days.  Sleep times are in *)
(* tenths of a second (backoff_factor 0.3 s is 3).                         *)
(*                                                                         *)
(* The environment: the upstream answers each request with a response, a   *)
(* 404 or a 503; a response carries any list of at most MaxObs entries     *)
(* dated up to today (in any order, dates may repeat, a value may be "."   *)
(* or missing, the requested window is not trusted), and any BigQuery or   *)
(* database call may raise.  The clock advances between workflows.         *)
(* Workflows run one at a time, as the Prefect flow runs them.  The rows   *)
(* of a staging table are tracked while its workflow runs (cur.loaded); of *)
(* a table left behind only the existence is kept, since every load is     *)
(* WRITE_TRUNCATE.                                                         *)
(*                                                                         *)
(* CelerySpec is the older dispatch of backend/data_fetch/tasks.py: one    *)
(* Celery task per item, run by NumCeleryWorkers worker processes.         *)
(*                                                                         *)
(* AnyItemsSpec is one flow run over items that may lack a field, name an  *)
(* origin without an API key or without a fetcher.                         *)
(*                                                                         *)
(* FunctionsSpec applies the pure functions to inputs drawn in its Init:   *)
(* CSVFetcher.fetch_series_data (data_sources/csv.py), the parse_metadata  *)
(* of the FRED and Polygon adapters, the update_or_create of save_metadata *)
(* and calculate_returns (dashboard/utils/returns.py), the bulk loads      *)
(* load_csv_to_bq and load_csv_in_chunks_to_bq (utils/utils.py),           *)
(* merge_data_point (utils/bigquery_utils.py) and the retrying request     *)
(* with any max_retries.  A rate of change is kept as the pair             *)
(* <<numerator, denominator>>.                                             *)
(*                                                                         *)
(* SeedsSpec is process_csv_data of the seeds command                      *)
(* (dashboard/management/commands/seeds.py) on a financial CSV file that   *)
(* grows at its end between the runs of the command.                       *)
(*                                                                         *)
(* ConcurrentSpec is NumFlowRuns executions of the per-series workflow for *)
(* one series at the same time, each with its own DataSeries instance.     *)
(*                                                                         *)
(* CacheSpec is the quadrantData resolver of dashboard/schema/queries.py   *)
(* with its cache, next to an ingestion that stores data points and then   *)
(* saves the series descriptor.  Its clock counts ticks, TicksPerSecond to *)
(* the second; months are numbered from 1, a quarter starts every third.   *)
(***************************************************************************)
EXTENDS Integers, Sequences, FiniteSets, Bags, TLC

\* ---- bounds of the model ----
MaxDate == 2
MaxObs == 2
MaxItems == 3
MaxBatchLen == 2
NumUuids == 1
NumCeleryWorkers == 2
MaxCsvFiles == 2
MaxCsvRows == 2
MaxSaves == 3
MaxPoints == 14
TicksPerSecond == 2
MaxTick == 3
InitialQuarters == 6
InitialMonths == 18
MaxNewPoints == 1
MaxQueries == 2
MaxLoadRows == 2
MaxChunkDate == 4
MaxChunkRows == 3
MaxChunkSizeDays == 3
MaxRetriesArg == 3
NumFlowRuns == 2

\* ---- program constants ----
max_retries == 5
task_max_retries == 3
backoff_factor == 3
InitialFetchDays == 1825
NoDate == 0
DoesNotExist == 0

SeriesIds == {"GDPC1", "CPIAUCSL"}
Dates == 1..MaxDate
Values == {10, 20}
StagingUuids == 1..NumUuids
CeleryWorkers == 1..NumCeleryWorkers
FlowRuns == 1..NumFlowRuns

VARIABLES
    now,             \* the clock, as a date
    data_series,     \* the DataSeries table: series_id -> descriptor
    economic_table,  \* the permanent table ECONOMIC_TABLE_ID, a bag of rows
    staging,         \* the staging dataset: the staging_table_ids that exist
    queue,           \* items of the running batch not yet attempted
    batch,           \* the batch driver: "idle", "running" or "raised"
    dispatched,      \* number of items handed to the batch driver so far
    pc,              \* position of the per-series workflow
    cur,             \* locals of the per-series workflow
    req,             \* locals of make_request_with_backoff
    outcome,         \* the log line the last per-series workflow ended with
    celery_queue,    \* data_fetch: the task messages the broker holds, a bag
    celery_worker,   \* data_fetch: what each Celery worker process is running
    call,            \* the function application looked at: the function, its arguments
    ret,             \* what that application returned or raised
    clock,           \* dashboard: the wall clock, in ticks of 1/TicksPerSecond s
    points,          \* dashboard: the stored values of GDPC1 and CPIAUCSL, by date
    series_last_updated,  \* dashboard: DataSeries.last_updated of the two series
    ingesting,       \* dashboard: the series with rows stored and the descriptor not yet saved
    cache,           \* the Django cache: the entries, as key -> cached list
    query,           \* the last resolve_quadrant_data call: its locals and its result
    csv_file,        \* seeds: the dates of the rows of the financial CSV file
    financial_table, \* the permanent table FINANCIAL_TABLE_ID, a sequence of rows
    last_data_date,  \* DataSeries.last_data_date: series_id -> date
    seeds_pc,        \* position of process_csv_data in its loop body
    run              \* the save_series_data execution of each worker process

vars == <<now, data_series, economic_table, staging, queue, batch, dispatched, pc, cur, req,
          outcome, celery_queue, celery_worker, call, ret, clock, points,
          series_last_updated, ingesting, cache, query, csv_file, financial_table,
          last_data_date, seeds_pc, run>>

\* the function applications (adapters, calculate_returns)
fn_vars == <<call, ret>>

\* the dashboard side of the state (dashboard/schema/queries.py)
cache_vars == <<clock, points, series_last_updated, ingesting, cache, query>>

\* the seeds command's side of the state (dashboard/management/commands/seeds.py)
seeds_vars == <<csv_file, financial_table, last_data_date, seeds_pc>>

\* the state neither ingestion pipeline touches
aux_vars == <<fn_vars, cache_vars, seeds_vars, run>>

\* the state of the two ingestion pipelines
ingestion_vars == <<now, data_series, economic_table, staging, queue, batch, dispatched, pc,
                    cur, req, outcome, celery_queue, celery_worker>>

\* the Celery side of the state (data_fetch/tasks.py)
celery_vars == <<celery_queue, celery_worker>>

\* the state only the Prefect pipeline (data_pipeline) touches
pipeline_vars == <<economic_table, staging, queue, batch, pc, cur, req, outcome>>

\* ------------------------------------------------------------------------
\* helpers
\* ------------------------------------------------------------------------
Range(s) == {s[i] : i \in DOMAIN s}

BagOfSeq(s) == [x \in Range(s) |-> Cardinality({i \in DOMAIN s : s[i] = x})]

SeqsUpTo(S, n) == UNION {[1..k -> S] : k \in 0..n}

RECURSIVE SumSeq(_)
SumSeq(s) == IF s = <<>> THEN 0 ELSE Head(s) + SumSeq(Tail(s))

Max(S) == CHOOSE x \in S : \A y \in S : y <= x

\* the items seeds.py builds for the FRED series
Item(sid) == [series_id |-> sid, data_origin |-> "fred", data_type |-> "economic"]

Items == {Item(s) : s \in SeriesIds}

\* upstream observations as parse_series_data returns them
Observation == [date : Dates, value : Values]

\* the value strings of the upstream's observations ("." is what FRED sends
\* for a missing value), and Python's float() on them
ValueStrs == {"10", "20", "."}

float == ("10" :> 10) @@ ("20" :> 20)

\* an entry of the "observations" list of the upstream's JSON: with both
\* keys, or without the 'value' key
RawObservation == [date : Dates, value : ValueStrs] \cup [date : Dates]

\* response.json(): a dictionary with a list of observations, or something else
NoResponse == [is_dict |-> TRUE, observations |-> <<>>]

NotADict == [is_dict |-> FALSE, observations |-> <<>>]

NoInst == [last_fetched_date |-> NoDate, last_updated |-> 0]

NoCur == [series_id |-> "", initial_fetch |-> FALSE, inst |-> NoInst,
          start_date |-> NoDate, end_date |-> NoDate,
          response_json |-> NoResponse, staging_rows |-> <<>>,
          staging_table_id |-> <<>>, loaded |-> EmptyBag, merged |-> FALSE, inserted |-> 0]

NoReq == [status |-> "none", attempt |-> 0, calls |-> 0, failures |-> 0, sleeps |-> <<>>,
          not_found |-> FALSE]

NewReq == [status |-> "running", attempt |-> 1, calls |-> 0, failures |-> 0, sleeps |-> <<>>,
           not_found |-> FALSE]

\* a Celery worker process without a task
IdleWorker == [pc |-> "idle", item |-> Item(""), retries |-> 0, initial_fetch |-> FALSE]

LastFetched(ds, sid) == IF sid \in DOMAIN ds THEN ds[sid].last_fetched_date ELSE NoDate

\* no function application
NoCall == [fn |-> "none"]

NoRet == [status |-> "pending", value |-> <<>>]

\* the dashboard's database before any data point is stored, and no query yet
NoQuery == [calls |-> 0, start_date |-> NoDate, end_date |-> NoDate, data_points |-> 0,
            found |-> FALSE, last_updated |-> 0, cache_key |-> <<>>, hit |-> FALSE,
            read_series |-> FALSE, returned |-> <<>>]

\* the ingestion pipelines before their first run
IdleIngestion ==
    /\ now = 1
    /\ data_series = <<>>
    /\ economic_table = EmptyBag
    /\ staging = {}
    /\ queue = <<>>
    /\ batch = "idle"
    /\ dispatched = 0
    /\ pc = "idle"
    /\ cur = NoCur
    /\ req = NoReq
    /\ outcome = "none"
    /\ celery_queue = EmptyBag
    /\ celery_worker = [w \in CeleryWorkers |-> IdleWorker]

\* no function is applied
NoFunction ==
    /\ call = NoCall
    /\ ret = NoRet

\* the dashboard without series, data points, cache entries and queries
EmptyDashboard ==
    /\ clock = 1
    /\ points = [s \in SeriesIds |-> <<>>]
    /\ series_last_updated = [s \in SeriesIds |-> DoesNotExist]
    /\ ingesting = {}
    /\ cache = <<>>
    /\ query = NoQuery

\* a worker process that runs no save_series_data
IdleRun == [pc |-> "idle", initial_fetch |-> FALSE, inst |-> NoInst, staging_rows |-> <<>>]

\* the seeds command has not run: no CSV rows, no financial rows
NoSeeds ==
    /\ csv_file = {}
    /\ financial_table = <<>>
    /\ last_data_date = <<>>
    /\ seeds_pc = "idle"

\* no worker process runs save_series_data
NoRuns == run = [p \in FlowRuns |-> IdleRun]

Init ==
    /\ IdleIngestion
    /\ NoFunction
    /\ EmptyDashboard
    /\ NoSeeds
    /\ NoRuns

\* ------------------------------------------------------------------------
\* the clock
\* ------------------------------------------------------------------------
Tick ==
    /\ pc = "idle"
    /\ now < MaxDate
    /\ now' = now + 1
    /\ UNCHANGED <<data_series, economic_table, staging, queue, batch, dispatched, pc, cur, req,
                   outcome>>
    /\ UNCHANGED celery_vars
    /\ UNCHANGED aux_vars

\* ------------------------------------------------------------------------
\* DataFetcher.make_request_with_backoff (base.py 60-80)
\* ------------------------------------------------------------------------
\* a bug: the exponent is the attempt number
sleep_time_exponent_off(attempt) == backoff_factor * (2 ^ attempt)

sleep_time(attempt) == backoff_factor * (2 ^ (attempt - 1))

\* a bug: the loop gives up one attempt early
IsLastAttempt_one_early(attempt) == attempt = max_retries - 1

IsLastAttempt(attempt) == attempt = max_retries

\* what requests.get and raise_for_status make of the upstream's answer: a
\* response, or a RequestException (HTTPError for a 404 or a 5xx status,
\* ConnectionError, Timeout after timeout=10)
Answers == {"200 OK", "404 Not Found", "503 Service Unavailable"}

IsRequestException(answer) == answer # "200 OK"

\* a bug: after the last attempt has failed the loop starts over
make_request_with_backoff_starts_over ==
    /\ pc \in {"fetch_metadata", "fetch_series_data"}
    /\ req.status = "running"
    /\ \E answer \in Answers :
         LET r == [req EXCEPT !.not_found = @ \/ (answer = "404 Not Found")]
         IN  req' = IF ~IsRequestException(answer)
                      THEN [r EXCEPT !.status = "returned", !.calls = @ + 1]
                    ELSE IF IsLastAttempt(req.attempt)
                      THEN NewReq
                    ELSE [r EXCEPT !.calls = @ + 1, !.failures = @ + 1,
                                   !.sleeps = Append(@, sleep_time(req.attempt)),
                                   !.attempt = @ + 1]
    /\ UNCHANGED <<now, data_series, economic_table, staging, queue, batch, dispatched, pc, cur,
                   outcome>>
    /\ UNCHANGED celery_vars
    /\ UNCHANGED aux_vars

\* one iteration of "for attempt in range(1, max_retries + 1)": one
\* requests.get, which the upstream answers or fails
make_request_with_backoff ==
    /\ pc \in {"fetch_metadata", "fetch_series_data"}
    /\ req.status = "running"
    /\ \E answer \in Answers :
         LET r == [req EXCEPT !.not_found = @ \/ (answer = "404 Not Found")]
         IN  req' = IF req.attempt \notin 1..max_retries
                      THEN [req EXCEPT !.status = "returned_none"]
                    ELSE IF ~IsRequestException(answer)
                      THEN [r EXCEPT !.status = "returned", !.calls = @ + 1]
                    ELSE IF IsLastAttempt(req.attempt)
                      THEN [r EXCEPT !.status = "raised", !.calls = @ + 1,
                                     !.failures = @ + 1]
                    ELSE [r EXCEPT !.calls = @ + 1, !.failures = @ + 1,
                                   !.sleeps = Append(@, sleep_time(req.attempt)),
                                   !.attempt = @ + 1]
    /\ UNCHANGED <<now, data_series, economic_table, staging, queue, batch, dispatched, pc, cur,
                   outcome>>
    /\ UNCHANGED celery_vars
    /\ UNCHANGED aux_vars

\* ------------------------------------------------------------------------
\* how a per-series workflow ends (tasks.py 23-77)
\* ------------------------------------------------------------------------
\* save_series_data returns; fetch_and_store_single_series returns; the loop
\* of fetch_and_store_multiple_series goes on
Return ==
    /\ pc' = "idle"
    /\ cur' = NoCur
    /\ req' = NoReq
    /\ UNCHANGED <<queue, batch>>

\* an exception leaves save_metadata / save_series_data; tasks.py 60-66
\* re-raises it, the for loop of fetch_and_store_multiple_series (75-76) does
\* not catch it, and seeds.py 354-356 leaves its loop over the batches
Raise ==
    /\ pc' = "idle"
    /\ cur' = NoCur
    /\ req' = NoReq
    /\ batch' = "raised"
    /\ UNCHANGED queue

\* ------------------------------------------------------------------------
\* the batch driver (flows.py, tasks.py 68-77, seeds.py 346-356)
\* ------------------------------------------------------------------------
fetch_and_store_flow ==
    /\ pc = "idle"
    /\ batch # "running"
    /\ \E l \in SeqsUpTo(Items, MaxBatchLen) :
         /\ dispatched + Len(l) <= MaxItems
         /\ l # <<>>
         /\ queue' = l
         /\ dispatched' = dispatched + Len(l)
    /\ batch' = "running"
    /\ UNCHANGED <<now, data_series, economic_table, staging, pc, cur, req, outcome>>
    /\ UNCHANGED celery_vars
    /\ UNCHANGED aux_vars

all_items_processed ==
    /\ pc = "idle"
    /\ batch = "running"
    /\ queue = <<>>
    /\ batch' = "idle"
    /\ UNCHANGED <<now, data_series, economic_table, staging, queue, dispatched, pc, cur, req,
                   outcome>>
    /\ UNCHANGED celery_vars
    /\ UNCHANGED aux_vars

HasAllFields(item) ==
    item.series_id # "" /\ item.data_origin # "" /\ item.data_type # ""

\* str.lower() on the spellings of an origin
lower == ("fred" :> "fred") @@ ("FRED" :> "fred") @@ ("quandl" :> "quandl") @@ ("" :> "")

\* tasks.py 13-17: the origins get_api_key has a key for, with both settings set
api_keys == {"fred", "polygon"}

\* FetcherManager.FETCHERS: the registry of adapters, keyed by origin
FETCHERS == {"fred", "polygon"}

\* a bug: the origin is looked up as it is spelled
HasApiKey_case_sensitive(data_origin) == data_origin \in api_keys

\* get_api_key (tasks.py 8-21)
HasApiKey(data_origin) == lower[data_origin] \in api_keys

\* FetcherManager.get_fetcher (fetcher_manager.py 16-21)
HasFetcher(data_origin) == lower[data_origin] \in FETCHERS

\* tasks.py 23-59: the item is taken from the list and checked (an item
\* without a field or without API key is logged and left), the descriptor is
\* looked up and the adapter is taken from the registry (get_fetcher raises
\* for an origin without adapter, and lines 60-66 re-raise)
fetch_and_store_single_series ==
    /\ pc = "idle"
    /\ batch = "running"
    /\ queue # <<>>
    /\ LET item == Head(queue)
           sid == item.series_id
       IN  /\ queue' = Tail(queue)
           /\ IF ~HasAllFields(item) \/ ~HasApiKey(item.data_origin)
                THEN /\ pc' = "idle"
                     /\ cur' = NoCur
                     /\ req' = NoReq
                     /\ outcome' = "skipped"
                     /\ UNCHANGED batch
              ELSE IF ~HasFetcher(item.data_origin)
                THEN /\ pc' = "idle"
                     /\ cur' = NoCur
                     /\ req' = NoReq
                     /\ outcome' = "failed"
                     /\ batch' = "raised"
              ELSE IF sid \in DOMAIN data_series
                THEN /\ pc' = "decide_date_range"
                     /\ cur' = [NoCur EXCEPT !.series_id = sid,
                                             !.inst = data_series[sid]]
                     /\ req' = NoReq
                     /\ outcome' = "none"
                     /\ UNCHANGED batch
              ELSE /\ pc' = "fetch_metadata"
                   /\ cur' = [NoCur EXCEPT !.series_id = sid, !.initial_fetch = TRUE]
                   /\ req' = NewReq
                   /\ outcome' = "none"
                   /\ UNCHANGED batch
    /\ UNCHANGED <<now, data_series, economic_table, staging, dispatched>>
    /\ UNCHANGED celery_vars
    /\ UNCHANGED aux_vars

\* ------------------------------------------------------------------------
\* DataFetcher.save_metadata (base.py 82-112)
\* ------------------------------------------------------------------------
\* update_or_create: every default, the metadata map included, is replaced
update_or_create(ds, sid, md) ==
    [s \in DOMAIN ds \cup {sid} |->
        IF s = sid THEN [last_fetched_date |-> NoDate, last_updated |-> md.last_updated]
        ELSE ds[s]]

\* a bug: the descriptor is created although the metadata request failed
save_metadata_creates_on_failure ==
    /\ pc = "fetch_metadata"
    /\ req.status \in {"returned", "raised", "returned_none"}
    /\ IF req.status # "returned"
         THEN /\ Raise
              /\ outcome' = "failed"
              /\ data_series' = update_or_create(data_series, cur.series_id,
                                                 [last_updated |-> now])
       ELSE \E md \in [last_updated : {now}], well_formed \in BOOLEAN :
            IF ~well_formed
              THEN Raise /\ outcome' = "failed" /\ UNCHANGED data_series
            ELSE /\ data_series' = update_or_create(data_series, cur.series_id, md)
                 /\ cur' = [cur EXCEPT !.inst = data_series'[cur.series_id]]
                 /\ pc' = "decide_date_range"
                 /\ req' = NoReq
                 /\ UNCHANGED <<queue, batch, outcome>>
    /\ UNCHANGED <<now, economic_table, staging, dispatched>>
    /\ UNCHANGED celery_vars
    /\ UNCHANGED aux_vars

\* lines 86-112: fetch_metadata raises (the request, or parse_metadata on a
\* malformed response), or update_or_create stores the descriptor
save_metadata ==
    /\ pc = "fetch_metadata"
    /\ req.status \in {"returned", "raised", "returned_none"}
    /\ IF req.status # "returned"
         THEN Raise /\ outcome' = "failed" /\ UNCHANGED data_series
       ELSE \E md \in [last_updated : {now}], well_formed \in BOOLEAN :
            IF ~well_formed
              THEN Raise /\ outcome' = "failed" /\ UNCHANGED data_series
            ELSE /\ data_series' = update_or_create(data_series, cur.series_id, md)
                 /\ cur' = [cur EXCEPT !.inst = data_series'[cur.series_id]]
                 /\ pc' = "decide_date_range"
                 /\ req' = NoReq
                 /\ UNCHANGED <<queue, batch, outcome>>
    /\ UNCHANGED <<now, economic_table, staging, dispatched>>
    /\ UNCHANGED celery_vars
    /\ UNCHANGED aux_vars

\* ------------------------------------------------------------------------
\* DataFetcher.save_series_data (base.py 114-283)
\* ------------------------------------------------------------------------
\* a bug: the window starts on the watermark day itself
start_date_dt_same_day(initial_fetch, last_fetched_date, today) ==
    IF initial_fetch THEN today - InitialFetchDays
    ELSE IF last_fetched_date # NoDate THEN last_fetched_date
    ELSE today - InitialFetchDays

\* lines 128-140
start_date_dt(initial_fetch, last_fetched_date, today) ==
    IF initial_fetch THEN today - InitialFetchDays
    ELSE IF last_fetched_date # NoDate THEN last_fetched_date + 1
    ELSE today - InitialFetchDays

\* a bug: the window is fetched also when it is empty
decide_date_range_always_fetch ==
    /\ pc = "decide_date_range"
    /\ LET start == start_date_dt(cur.initial_fetch, cur.inst.last_fetched_date, now)
       IN  /\ pc' = "fetch_series_data"
           /\ cur' = [cur EXCEPT !.start_date = start, !.end_date = now]
           /\ req' = NewReq
           /\ UNCHANGED <<queue, batch, outcome>>
    /\ UNCHANGED <<now, data_series, economic_table, staging, dispatched>>
    /\ UNCHANGED celery_vars
    /\ UNCHANGED aux_vars

\* lines 128-149
decide_date_range ==
    /\ pc = "decide_date_range"
    /\ LET start == start_date_dt(cur.initial_fetch, cur.inst.last_fetched_date, now)
           c == [cur EXCEPT !.start_date = start, !.end_date = now]
       IN  IF start > now
             THEN Return /\ outcome' = "up_to_date"
           ELSE /\ pc' = "fetch_series_data"
                /\ cur' = c
                /\ req' = NewReq
                /\ UNCHANGED <<queue, batch, outcome>>
    /\ UNCHANGED <<now, data_series, economic_table, staging, dispatched>>
    /\ UNCHANGED celery_vars
    /\ UNCHANGED aux_vars

\* a bug: the rows at or before the watermark are staged again
KeepObservation_unfiltered(obs, initial_fetch, lf) == TRUE

\* lines 199-203: the observations kept for staging
KeepObservation(obs, initial_fetch, lf) ==
    ~(~initial_fetch /\ lf # NoDate /\ obs.date <= lf)

\* lines 198-208
StagingRows(sid, observations, initial_fetch, lf) ==
    LET kept == SelectSeq(observations, LAMBDA o : KeepObservation(o, initial_fetch, lf))
    IN  [i \in DOMAIN kept |->
            [series_id |-> sid, date |-> kept[i].date, value |-> kept[i].value]]

\* what the upstream may answer on a day: at most MaxObs entries dated up to
\* that day, in any order
ResponseJsons(today) ==
    {NotADict} \cup
    {[is_dict |-> TRUE, observations |-> s] :
        s \in SeqsUpTo({o \in RawObservation : o.date <= today}, MaxObs)}

\* fred.py 50
HasRequiredKeys(obs) == {"date", "value"} \subseteq DOMAIN obs

\* fred.py 61-65
IsNumeric(value_str) == value_str \in DOMAIN float

\* a bug: an entry without the required keys is left out
parse_series_data_skip_missing(response_json) ==
    LET observations == response_json.observations
        kept == SelectSeq(observations, HasRequiredKeys)
    IN  IF ~response_json.is_dict
          THEN [raised |-> TRUE, parsed_data |-> <<>>]
        ELSE IF \E i \in DOMAIN kept : ~IsNumeric(kept[i].value)
          THEN [raised |-> TRUE, parsed_data |-> <<>>]
        ELSE [raised |-> FALSE,
              parsed_data |-> [i \in DOMAIN kept |->
                                  [date |-> kept[i].date, value |-> float[kept[i].value]]]]

\* FREDFetcher.parse_series_data (fred.py 36-72): the first entry that lacks a
\* key or whose value float() rejects raises ValueError
parse_series_data(response_json) ==
    LET observations == response_json.observations
    IN  IF ~response_json.is_dict
          THEN [raised |-> TRUE, parsed_data |-> <<>>]
        ELSE IF \E i \in DOMAIN observations :
                    \/ ~HasRequiredKeys(observations[i])
                    \/ ~IsNumeric(observations[i].value)
          THEN [raised |-> TRUE, parsed_data |-> <<>>]
        ELSE [raised |-> FALSE,
              parsed_data |-> [i \in DOMAIN observations |->
                                  [date |-> observations[i].date,
                                   value |-> float[observations[i].value]]]]

\* lines 151-156 with fred.py 17-20: the request, and response.json()
fetch_series_data ==
    /\ pc = "fetch_series_data"
    /\ req.status \in {"returned", "raised", "returned_none"}
    /\ IF req.status # "returned"
         THEN Raise /\ outcome' = "fetch_failed"
       ELSE \E response_json \in ResponseJsons(now) :
            /\ pc' = "parse_series_data"
            /\ cur' = [cur EXCEPT !.response_json = response_json]
            /\ req' = NoReq
            /\ UNCHANGED <<queue, batch, outcome>>
    /\ UNCHANGED <<now, data_series, economic_table, staging, dispatched>>
    /\ UNCHANGED celery_vars
    /\ UNCHANGED aux_vars

\* lines 151-212: parse_series_data on the response, then the rows for staging
build_staging_rows ==
    /\ pc = "parse_series_data"
    /\ LET parsed == parse_series_data(cur.response_json)
           observations == parsed.parsed_data
           rows == StagingRows(cur.series_id, observations, cur.initial_fetch,
                               cur.inst.last_fetched_date)
       IN  IF parsed.raised THEN Raise /\ outcome' = "fetch_failed"
           ELSE IF observations = <<>> THEN Return /\ outcome' = "no_new_observations"
           ELSE IF rows = <<>> THEN Return /\ outcome' = "no_new_rows"
           ELSE /\ pc' = "load_job"
                /\ cur' = [cur EXCEPT !.staging_rows = rows, !.response_json = NoResponse]
                /\ req' = NoReq
                /\ UNCHANGED <<queue, batch, outcome>>
    /\ UNCHANGED <<now, data_series, economic_table, staging, dispatched>>
    /\ UNCHANGED celery_vars
    /\ UNCHANGED aux_vars

\* str() of a Python float, as csv.DictWriter writes the value column
str == (10 :> "10.0") @@ (20 :> "20.0")

\* the FLOAT column BigQuery reads from the CSV text
FLOAT == ("10.0" :> 10) @@ ("20.0" :> 20)

\* lines 230-236: the CSV text of the staging rows
writerow(row) == [series_id |-> row.series_id, date |-> row.date, value |-> str[row.value]]

\* lines 238-243: the rows of the staging table after the load job
load_table_from_file(staging_rows) ==
    [i \in DOMAIN staging_rows |->
        LET line == writerow(staging_rows[i])
        IN  [series_id |-> line.series_id, date |-> line.date, value |-> FLOAT[line.value]]]

\* lines 214-244: create_table(exists_ok=True) under a uuid4 suffix, then the
\* WRITE_TRUNCATE load of the rows; either call may raise
load_job ==
    /\ pc = "load_job"
    /\ \/ \E u \in StagingUuids :
            LET id == <<cur.series_id, u>>
            IN  /\ staging' = staging \cup {id}
                /\ \/ /\ cur' = [cur EXCEPT !.staging_table_id = id,
                                            !.loaded = BagOfSeq(load_table_from_file(
                                                                    cur.staging_rows))]
                      /\ pc' = "merge_job"
                      /\ UNCHANGED <<queue, batch, req, outcome>>
                   \/ Raise /\ outcome' = "failed"
       \/ Raise /\ outcome' = "failed" /\ UNCHANGED staging
    /\ UNCHANGED <<now, data_series, economic_table, dispatched>>
    /\ UNCHANGED celery_vars
    /\ UNCHANGED aux_vars

\* a bug: the earliest staged date becomes the watermark
new_latest_date_min(staging_rows) ==
    CHOOSE d \in {staging_rows[i].date : i \in DOMAIN staging_rows} :
        \A i \in DOMAIN staging_rows : d <= staging_rows[i].date

\* line 275
new_latest_date(staging_rows) == Max({staging_rows[i].date : i \in DOMAIN staging_rows})

\* lines 257-264: ON T.series_id = S.series_id AND T.date = S.date
Matched(T, s) ==
    \E t \in BagToSet(T) : t.series_id = s.series_id /\ t.date = s.date

\* a bug: WHEN MATCHED THEN UPDATE as well (an update-or-insert merge)
MERGE_with_update(T, S) ==
    LET kept == {t \in BagToSet(T) : ~Matched(S, t)}
    IN  [t \in kept |-> T[t]] (+) S

\* a bug: a plain INSERT of the staging rows
MERGE_append(T, S) == T (+) S

\* WHEN NOT MATCHED THEN INSERT: every source row without a match is inserted
MERGE(T, S) ==
    LET unmatched == {s \in BagToSet(S) : ~Matched(T, s)}
    IN  T (+) [s \in unmatched |-> S[s]]

\* a bug: the watermark is written before the MERGE job has committed
merge_job_watermark_first ==
    /\ pc = "merge_job"
    /\ LET inst == [cur.inst EXCEPT !.last_fetched_date = new_latest_date(cur.staging_rows)]
       IN  /\ data_series' = [data_series EXCEPT ![cur.series_id] = inst]
           /\ \/ /\ economic_table' = MERGE(economic_table, cur.loaded)
                 /\ cur' = [cur EXCEPT !.merged = TRUE, !.inst = inst,
                                         !.inserted = BagCardinality(economic_table')
                                                      - BagCardinality(economic_table)]
                 /\ pc' = "delete_table"
                 /\ UNCHANGED <<queue, batch, req, outcome>>
              \/ Raise /\ outcome' = "failed" /\ UNCHANGED economic_table
    /\ UNCHANGED <<now, staging, dispatched>>
    /\ UNCHANGED celery_vars
    /\ UNCHANGED aux_vars

\* lines 246-268
merge_job ==
    /\ pc = "merge_job"
    /\ \/ /\ economic_table' = MERGE(economic_table, cur.loaded)
          /\ cur' = [cur EXCEPT !.merged = TRUE,
                           !.inserted = BagCardinality(economic_table')
                                        - BagCardinality(economic_table)]
          /\ pc' = "delete_table"
          /\ UNCHANGED <<queue, batch, req, outcome>>
       \/ Raise /\ outcome' = "failed" /\ UNCHANGED economic_table
    /\ UNCHANGED <<now, data_series, staging, dispatched>>
    /\ UNCHANGED celery_vars
    /\ UNCHANGED aux_vars

\* lines 270-272
delete_table ==
    /\ pc = "delete_table"
    /\ \/ /\ staging' = staging \ {cur.staging_table_id}
          /\ pc' = "update_last_fetched_date"
          /\ UNCHANGED <<queue, batch, cur, req, outcome>>
       \/ Raise /\ outcome' = "failed" /\ UNCHANGED staging
    /\ UNCHANGED <<now, data_series, economic_table, dispatched>>
    /\ UNCHANGED celery_vars
    /\ UNCHANGED aux_vars

\* lines 274-283: the instance is changed in memory and saved whole, twice
\* (last_fetched_date, then last_updated); either save may raise
update_last_fetched_date ==
    /\ pc = "update_last_fetched_date"
    /\ LET inst1 == [cur.inst EXCEPT !.last_fetched_date = new_latest_date(cur.staging_rows)]
           inst2 == [inst1 EXCEPT !.last_updated = now]
       IN  \/ /\ data_series' = [data_series EXCEPT ![cur.series_id] = inst2]
              /\ Return
              /\ outcome' = "finished"
           \/ /\ data_series' = [data_series EXCEPT ![cur.series_id] = inst1]
              /\ Raise
              /\ outcome' = "failed"
           \/ Raise /\ outcome' = "failed" /\ UNCHANGED data_series
    /\ UNCHANGED <<now, economic_table, staging, dispatched>>
    /\ UNCHANGED celery_vars
    /\ UNCHANGED aux_vars

\* ------------------------------------------------------------------------
\* fetch_time_series (utils/bigquery_utils.py 25-86), economic branch
\* ------------------------------------------------------------------------
\* the (date, value) tuples of the rows SELECTed for series_id, as a bag: ORDER
\* BY date leaves the order of rows with equal dates open
fetch_time_series(T, series_id, start_date, end_date) ==
    LET selected == {r \in BagToSet(T) :
                        /\ r.series_id = series_id
                        /\ (start_date # NoDate /\ end_date # NoDate) =>
                               (start_date <= r.date /\ r.date <= end_date)}
    IN  [tup \in {<<r.date, r.value>> : r \in selected} |->
            T[[series_id |-> series_id, date |-> tup[1], value |-> tup[2]]]]

Next ==
    \/ Tick
    \/ fetch_and_store_flow
    \/ all_items_processed
    \/ fetch_and_store_single_series
    \/ make_request_with_backoff
    \/ save_metadata
    \/ decide_date_range
    \/ fetch_series_data
    \/ build_staging_rows
    \/ load_job
    \/ merge_job
    \/ delete_table
    \/ update_last_fetched_date


Spec == Init /\ [][Next]_vars

\* The worker runs the statements of a workflow one after the other, and each
\* blocking call ends: requests.get has timeout=10, a BigQuery job or a
\* database save completes or raises.  When and how often a flow is started,
\* and the clock, are left to the environment.
Fairness ==
    /\ WF_vars(fetch_and_store_single_series)
    /\ WF_vars(all_items_processed)
    /\ WF_vars(make_request_with_backoff)
    /\ WF_vars(save_metadata)
    /\ WF_vars(decide_date_range)
    /\ WF_vars(fetch_series_data)
    /\ WF_vars(build_staging_rows)
    /\ WF_vars(load_job)
    /\ WF_vars(merge_job)
    /\ WF_vars(delete_table)
    /\ WF_vars(update_last_fetched_date)

\* one run of the flow, from the empty tables, under this fairness
first_flow ==
    /\ dispatched = 0
    /\ fetch_and_store_flow

OneFlowNext ==
    \/ Tick
    \/ first_flow
    \/ all_items_processed
    \/ fetch_and_store_single_series
    \/ make_request_with_backoff
    \/ save_metadata
    \/ decide_date_range
    \/ fetch_series_data
    \/ build_staging_rows
    \/ load_job
    \/ merge_job
    \/ delete_table
    \/ update_last_fetched_date

OneFlowSpec == Init /\ [][OneFlowNext]_vars /\ Fairness

\* the items a caller may hand to the flow: a field may be missing, the
\* origin may be spelled in capitals or name a source without adapter or key
AnyItems == [series_id : {"GDPC1", ""},
             data_origin : {"fred", "FRED", "quandl", ""},
             data_type : {"economic", ""}]

\* one run of the flow on a list of such items, from the empty tables
fetch_and_store_flow_any_items ==
    /\ pc = "idle"
    /\ batch # "running"
    /\ dispatched = 0
    /\ \E l \in SeqsUpTo(AnyItems, MaxBatchLen) :
         /\ l # <<>>
         /\ queue' = l
         /\ dispatched' = dispatched + Len(l)
    /\ batch' = "running"
    /\ UNCHANGED <<now, data_series, economic_table, staging, pc, cur, req, outcome>>
    /\ UNCHANGED celery_vars
    /\ UNCHANGED aux_vars

AnyItemsNext ==
    \/ Tick
    \/ fetch_and_store_flow_any_items
    \/ all_items_processed
    \/ fetch_and_store_single_series
    \/ make_request_with_backoff
    \/ save_metadata
    \/ decide_date_range
    \/ fetch_series_data
    \/ build_staging_rows
    \/ load_job
    \/ merge_job
    \/ delete_table
    \/ update_last_fetched_date

AnyItemsSpec == Init /\ [][AnyItemsNext]_vars

\* ------------------------------------------------------------------------
\* properties
\* ------------------------------------------------------------------------
SameKey(r1, r2) == r1.series_id = r2.series_id /\ r1.date = r2.date

StagingTablesOf(sid) == {id \in staging : id[1] = sid}

\* C1: after any sequence of ingestion runs the permanent table holds at most
\* one row per (series_id, date), also when a staged batch repeats a date.
C1_AtMostOneRowPerKey ==
    \A r1 \in BagToSet(economic_table) :
        /\ CopiesIn(r1, economic_table) = 1
        /\ \A r2 \in BagToSet(economic_table) : SameKey(r1, r2) => r1 = r2

\* C2: the merge is insert-only: every row in the permanent table before a
\* step is there, as often and with the same values, after it, and no row is
\* added under a key the table already holds.
C2_MergeInsertOnly ==
    [][/\ \A r \in BagToSet(economic_table) :
            CopiesIn(r, economic_table') = CopiesIn(r, economic_table)
       /\ \A r \in BagToSet(economic_table') :
            Matched(economic_table, r) =>
                CopiesIn(r, economic_table') = CopiesIn(r, economic_table)]_vars

\* the merge has run on a batch that carries another value for a key of the table
C2_Witness ==
    /\ pc = "delete_table"
    /\ cur.merged
    /\ \E s \in BagToSet(cur.loaded) :
        /\ ~BagIn(s, economic_table)
        /\ Matched(economic_table, s)

\* C3: merging the staging batch a second time leaves the permanent table as
\* the first merge left it: the second merge inserts nothing.
C3_MergeIdempotent ==
    (pc = "delete_table" /\ cur.merged) =>
        MERGE(economic_table, cur.loaded) = economic_table

\* the first merge has inserted a row of the batch
C3_Witness ==
    /\ pc = "delete_table"
    /\ cur.merged
    /\ \E s \in BagToSet(cur.loaded) : BagIn(s, economic_table)

\* C4: a run on a series whose descriptor holds last_fetched_date = D asks for
\* a window starting on D + 1, and every row it stages or loads for the merge
\* has date > D.
C4_IncrementalWindow ==
    (/\ pc \in {"fetch_series_data", "parse_series_data", "load_job", "merge_job",
                "delete_table", "update_last_fetched_date"}
     /\ LastFetched(data_series, cur.series_id) # NoDate) =>
        LET D == LastFetched(data_series, cur.series_id)
        IN  /\ cur.start_date = D + 1
            /\ \A i \in DOMAIN cur.staging_rows : cur.staging_rows[i].date > D
            /\ \A s \in BagToSet(cur.loaded) : s.date > D

\* an incremental run has merged its rows
C4_Witness ==
    /\ pc = "delete_table"
    /\ cur.merged
    /\ LastFetched(data_series, cur.series_id) # NoDate
    /\ \E s \in BagToSet(cur.loaded) : BagIn(s, economic_table)

FailsBeforeCommit ==
    /\ pc \in {"fetch_series_data", "parse_series_data", "load_job", "merge_job"}
    /\ pc' = "idle"
    /\ batch' = "raised"

\* C5: the watermark of a series changes only in a run whose merge has
\* committed; a run that fails in FETCH, STAGE or MERGE leaves it as it was
\* before the run, so the next run computes the same window start.
C5_WatermarkOnlyAfterCommit ==
    [][/\ \A s \in SeriesIds :
            LastFetched(data_series', s) # LastFetched(data_series, s) =>
                (cur.series_id = s /\ cur.merged)
       /\ FailsBeforeCommit =>
            /\ LastFetched(data_series', cur.series_id) = cur.inst.last_fetched_date
            /\ start_date_dt(FALSE, LastFetched(data_series', cur.series_id), now)
                 = cur.start_date]_vars

\* a run on a series with a watermark has failed in the load or in the merge:
\* its staging table is left, none of its rows is in the table
C5_Witness ==
    /\ pc = "idle"
    /\ batch = "raised"
    /\ \E s \in DOMAIN data_series :
        /\ data_series[s].last_fetched_date # NoDate
        /\ StagingTablesOf(s) # {}
        /\ \A r \in BagToSet(economic_table) :
             r.series_id = s => r.date <= data_series[s].last_fetched_date

\* C6: a failing item does not stop the batch driver: the batch run does not
\* raise, and no item of the list is left unattempted.
C6_BatchIsolation ==
    /\ batch # "raised"
    /\ batch # "running" => queue = <<>>

\* a run whose merge found every row of its batch in the table already: the
\* re-merge of a window that was merged and whose watermark write was lost
RecoveryRun ==
    /\ pc = "delete_table"
    /\ cur.merged
    /\ cur.inserted = 0
    /\ \A s \in BagToSet(cur.loaded) :
         CopiesIn(s, economic_table) = CopiesIn(s, cur.loaded)

\* C7: after a lost watermark write the next run re-merges the same window
\* and the table holds exactly the rows of a failure-free run: every row of
\* the batch, and no (series_id, date) twice.
C7_RecoveryExact ==
    RecoveryRun =>
        \A r1 \in BagToSet(economic_table) :
            r1.series_id = cur.series_id =>
                /\ CopiesIn(r1, economic_table) = 1
                /\ \A r2 \in BagToSet(economic_table) : SameKey(r1, r2) => r1 = r2

\* C8: no run ends while the staging table it created still exists.
C8_StagingReleased ==
    pc = "idle" => staging = {}

\* C9: when every attempt fails, make_request_with_backoff makes exactly
\* max_retries requests and then raises; it never makes more.
C9_RetryExhaustion ==
    /\ req.calls <= max_retries
    /\ req.status = "raised" => (req.calls = max_retries /\ req.failures = max_retries)
    /\ req.failures = max_retries => req.status = "raised"

\* the request has been given up
C9_Witness ==
    req.status = "raised"

\* C10: after N < max_retries failures followed by a success the call returns
\* after N + 1 requests and N sleeps, the n-th of backoff_factor * 2^(n-1),
\* which add up to backoff_factor * (2^N - 1).
C10_RetrySuccess ==
    req.status = "returned" =>
        LET N == req.failures
        IN  /\ N < max_retries
            /\ req.calls = N + 1
            /\ Len(req.sleeps) = N
            /\ \A n \in 1..N : req.sleeps[n] = backoff_factor * (2 ^ (n - 1))
            /\ SumSeq(req.sleeps) = backoff_factor * ((2 ^ N) - 1)

\* the call has returned after max_retries - 1 failures
C10_Witness ==
    req.status = "returned" /\ req.failures = max_retries - 1

\* C11: when the window start computed from the watermark is after today, the
\* run ends as done, without a request to the source and without a change to
\* the descriptors, the staging dataset or the permanent table.
C11_AlreadyCurrent ==
    [][(/\ pc = "decide_date_range"
        /\ ~cur.initial_fetch
        /\ cur.inst.last_fetched_date # NoDate
        /\ cur.inst.last_fetched_date + 1 > now) =>
            /\ pc' = "idle"
            /\ outcome' = "up_to_date"
            /\ batch' = batch
            /\ req' = NoReq
            /\ UNCHANGED <<data_series, staging, economic_table>>]_vars

\* a run has ended on the already-current short cut
C11_Witness ==
    /\ pc = "idle"
    /\ outcome = "up_to_date"

\* the upstream answers a run on a series with a watermark with a well-formed
\* list that holds nothing after the watermark
NoNewUpstreamData ==
    /\ pc = "parse_series_data"
    /\ ~cur.initial_fetch
    /\ cur.inst.last_fetched_date # NoDate
    /\ cur.response_json.is_dict
    /\ \A i \in DOMAIN cur.response_json.observations :
         LET obs == cur.response_json.observations[i]
         IN  /\ HasRequiredKeys(obs)
             /\ IsNumeric(obs.value)
             /\ obs.date <= cur.inst.last_fetched_date

\* C12: a further run for which the upstream has no data after the watermark
\* merges no row and leaves the descriptor, the watermark included, as it was.
C12_RerunNoNewData ==
    [][NoNewUpstreamData =>
            /\ pc' = "idle"
            /\ batch' = batch
            /\ outcome' \in {"no_new_observations", "no_new_rows"}
            /\ UNCHANGED <<data_series, staging, economic_table>>]_vars

\* a run has ended because the upstream repeated data at or before the watermark
C12_Witness ==
    /\ pc = "idle"
    /\ outcome = "no_new_rows"
    /\ \E s \in DOMAIN data_series : data_series[s].last_fetched_date # NoDate

RowsOf(T, sid) ==
    [r \in {x \in BagToSet(T) : x.series_id = sid} |-> T[r]]

DistinctDates(rows) ==
    \A i, j \in DOMAIN rows : rows[i].date = rows[j].date => i = j

\* C13: when the first ingestion of a series (no descriptor before) fetches k
\* rows with distinct dates and finishes, the descriptor exists, the permanent
\* table holds exactly those k rows for the series, and last_fetched_date is
\* the latest of their dates.
C13_FirstIngestion ==
    [][(/\ pc = "update_last_fetched_date"
        /\ cur.initial_fetch
        /\ DistinctDates(cur.staging_rows)
        /\ outcome' = "finished") =>
            /\ cur.series_id \in DOMAIN data_series'
            /\ RowsOf(economic_table', cur.series_id) = BagOfSeq(cur.staging_rows)
            /\ BagCardinality(RowsOf(economic_table', cur.series_id)) = Len(cur.staging_rows)
            /\ \A i \in DOMAIN cur.staging_rows :
                 cur.staging_rows[i].date <= data_series'[cur.series_id].last_fetched_date
            /\ \E i \in DOMAIN cur.staging_rows :
                 cur.staging_rows[i].date = data_series'[cur.series_id].last_fetched_date]_vars

\* the only workflow so far was a first ingestion of two rows and has finished
C13_Witness ==
    /\ pc = "idle"
    /\ outcome = "finished"
    /\ dispatched = 1
    /\ BagCardinality(economic_table) = 2
    /\ \E r1, r2 \in BagToSet(economic_table) : r1.date # r2.date

ShapeValid(response_json) ==
    /\ response_json.is_dict
    /\ \A i \in DOMAIN response_json.observations :
         HasRequiredKeys(response_json.observations[i])

NumericEntries(response_json) ==
    LET kept == SelectSeq(response_json.observations, LAMBDA o : IsNumeric(o.value))
    IN  [i \in DOMAIN kept |-> [date |-> kept[i].date, value |-> float[kept[i].value]]]

\* C14: a response of valid shape in which some entries carry a value that is
\* not numeric does not fail the run: those entries are dropped and exactly
\* the entries with numeric values go on to be stored.
C14_MalformedScalarTolerance ==
    [][(pc = "parse_series_data" /\ ShapeValid(cur.response_json)) =>
            /\ outcome' # "fetch_failed"
            /\ batch' # "raised"
            /\ pc' = "load_job" =>
                 cur'.staging_rows =
                     StagingRows(cur.series_id, NumericEntries(cur.response_json),
                                 cur.initial_fetch, cur.inst.last_fetched_date)]_vars

C16_NotFoundNotRetried ==
    req.not_found =>
        /\ req.status = "raised"
        /\ Len(req.sleeps) = req.failures - 1

\* C17: a row the merge has written reads back, by series_id and date, as
\* its own date and value and nothing else.
C17_RoundTrip ==
    (pc = "delete_table" /\ cur.merged) =>
        \A s \in BagToSet(cur.loaded) :
            BagIn(s, economic_table) =>
                fetch_time_series(economic_table, s.series_id, s.date, s.date)
                    = SetToBag({<<s.date, s.value>>})

\* ------------------------------------------------------------------------
\* the Celery tasks (data_fetch/tasks.py) and their DataFetcher
\* (data_fetch/data_sources/base.py)
\* ------------------------------------------------------------------------
\* tasks.py 91-103: one task message per item of the list, in one loop
celery_fetch_and_store_multiple_series ==
    /\ \E l \in SeqsUpTo(Items, MaxBatchLen) :
         /\ l # <<>>
         /\ dispatched + Len(l) <= MaxItems
         /\ dispatched' = dispatched + Len(l)
         /\ celery_queue' = celery_queue (+)
                BagOfSeq([i \in DOMAIN l |-> [item |-> l[i], retries |-> 0]])
    /\ UNCHANGED <<now, data_series, celery_worker>>
    /\ UNCHANGED pipeline_vars
    /\ UNCHANGED aux_vars

\* tasks.py 76-89: self.retry(exc=e) publishes the task again while its
\* retries are below max_retries=3, and ends this execution either way
celery_retry(w) ==
    LET task == celery_worker[w]
    IN  /\ celery_worker' = [celery_worker EXCEPT ![w] = IdleWorker]
        /\ celery_queue' =
              IF task.retries < task_max_retries
                THEN celery_queue (+) SetToBag({[item |-> task.item,
                                                 retries |-> task.retries + 1]})
              ELSE celery_queue

\* tasks.py 34-67: a worker process takes a task message, checks the item and
\* looks the descriptor up
celery_fetch_and_store_single_series(w) ==
    /\ celery_worker[w].pc = "idle"
    /\ \E msg \in BagToSet(celery_queue) :
         /\ celery_queue' = celery_queue (-) SetToBag({msg})
         /\ celery_worker' = [celery_worker EXCEPT ![w] =
                IF ~HasAllFields(msg.item) \/ ~HasApiKey(msg.item.data_origin)
                  THEN IdleWorker
                ELSE [pc |-> IF msg.item.series_id \in DOMAIN data_series
                               THEN "save_series_data" ELSE "save_metadata",
                      item |-> msg.item,
                      retries |-> msg.retries,
                      initial_fetch |-> FALSE]]
    /\ UNCHANGED <<now, data_series, dispatched>>
    /\ UNCHANGED pipeline_vars
    /\ UNCHANGED aux_vars

\* data_fetch base.py 64-94: the metadata request fails, or update_or_create
celery_save_metadata(w) ==
    /\ celery_worker[w].pc = "save_metadata"
    /\ \/ /\ celery_retry(w)
          /\ UNCHANGED data_series
       \/ \E md \in [last_updated : {now}] :
            /\ data_series' = update_or_create(data_series,
                                               celery_worker[w].item.series_id, md)
            /\ celery_worker' = [celery_worker EXCEPT ![w].pc = "save_series_data",
                                                      ![w].initial_fetch = TRUE]
            /\ UNCHANGED celery_queue
    /\ UNCHANGED <<now, dispatched>>
    /\ UNCHANGED pipeline_vars
    /\ UNCHANGED aux_vars

\* data_fetch base.py 96-139: fetch_series_data returns the parsed list (or
\* the request raises); line 136 then hands that list to parse_series_data,
\* which raises on anything that is not the response dictionary (fred.py
\* 37-39), so every execution ends in "except Exception" and self.retry
celery_save_series_data(w) ==
    /\ celery_worker[w].pc = "save_series_data"
    /\ celery_retry(w)
    /\ UNCHANGED <<now, data_series, dispatched>>
    /\ UNCHANGED pipeline_vars
    /\ UNCHANGED aux_vars

celery_Tick ==
    /\ now < MaxDate
    /\ now' = now + 1
    /\ UNCHANGED <<data_series, dispatched>>
    /\ UNCHANGED celery_vars
    /\ UNCHANGED pipeline_vars
    /\ UNCHANGED aux_vars

CeleryNext ==
    \/ celery_Tick
    \/ celery_fetch_and_store_multiple_series
    \/ \E w \in CeleryWorkers : celery_fetch_and_store_single_series(w)
    \/ \E w \in CeleryWorkers : celery_save_metadata(w)
    \/ \E w \in CeleryWorkers : celery_save_series_data(w)

CelerySpec == Init /\ [][CeleryNext]_vars

\* the workflows in flight for a series: on the Prefect side the one the
\* task loop is in, on the Celery side those the worker processes are in
InFlight(sid) ==
    {"prefect" : x \in {1} \cap {IF pc # "idle" /\ cur.series_id = sid THEN 1 ELSE 0}}
    \cup
    {<<"celery", w>> : w \in {v \in CeleryWorkers :
        celery_worker[v].pc # "idle" /\ celery_worker[v].item.series_id = sid}}

\* C18: at most one workflow per series_id is in flight at any time, also
\* when the dispatched list names a series twice.
C18_SingleWriterPerSeries ==
    \A sid \in SeriesIds : Cardinality(InFlight(sid)) <= 1

\* C19: the staging table id an invocation obtains is the id of no other
\* invocation's staging table: the table it creates and loads is never one
\* that another run has created.
C19_StagingIdUnique ==
    [][(pc = "load_job" /\ pc' = "merge_job") =>
            cur'.staging_table_id \notin staging]_vars

\* C20: every per-series workflow ends, finished or failed, however often the
\* upstream fails, and a batch run over its list ends.
C20_Terminates ==
    /\ (pc # "idle") ~> (pc = "idle")
    /\ (batch = "running") ~> (batch # "running")

\* a workflow has ended after a request was given up at the last attempt
C20_Witness ==
    /\ pc = "idle"
    /\ outcome = "fetch_failed"
    /\ batch = "raised"

\* ------------------------------------------------------------------------
\* CSVFetcher (data_pipeline/data_sources/csv.py), economic data
\* ------------------------------------------------------------------------
\* an empty cell of a CSV file, as pandas reads it
NaN == -1

\* the header lines of the CSV files: a file of one series, one with the
\* date column spelled 'Date', one of several series, one without dates
CsvHeaders == {<<"date", "GDPC1">>, <<"Date", "CPIAUCSL">>,
               <<"date", "GDPC1", "UNRATE">>, <<"GDPC1", "CPIAUCSL">>}

\* a line of a file: its date, and the cell of each data column
CsvRow == [date : Dates, value : {10, NaN}]

\* a path of csv_paths that read_csv cannot read
Unreadable == [readable |-> FALSE, columns |-> <<>>, rows |-> <<>>]

\* what the paths of csv_paths may hold: lines in any order, dates may repeat
CsvFiles ==
    {Unreadable} \cup
    [readable : {TRUE}, columns : CsvHeaders, rows : SeqsUpTo(CsvRow, MaxCsvRows)]

\* csv.py 65-66
rename_Date(columns) ==
    [i \in DOMAIN columns |-> IF columns[i] = "Date" THEN "date" ELSE columns[i]]

\* csv.py 63-76, one pass of the loop over csv_paths: whether the pass
\* returns a frame.  read_csv may raise, and df[['date', series_id]] raises
\* KeyError without a date column: both are logged and the loop goes on.
returns_frame(file, series_id) ==
    LET columns == rename_Date(file.columns)
    IN  IF ~file.readable THEN FALSE
        ELSE IF series_id \in Range(columns) THEN "date" \in Range(columns)
        ELSE Len(columns) = 2 /\ "date" \in Range(columns)

\* CSVFetcher._get_csv_data (csv.py 37-77), economic branch: the frame
\* df[['date', series_id]] of the first file of csv_paths whose pass returns
get_csv_data(csv_paths, series_id) ==
    LET hits == {i \in DOMAIN csv_paths : returns_frame(csv_paths[i], series_id)}
    IN  IF hits = {} THEN [raised |-> TRUE, df |-> <<>>]
        ELSE [raised |-> FALSE,
              df |-> csv_paths[CHOOSE i \in hits : \A j \in hits : i <= j].rows]

\* CSVFetcher.fetch_series_data and parse_series_data (csv.py 114-162),
\* economic branch: the mask of the window, dropna, the rows in file order
CSVFetcher_fetch_series_data(csv_paths, series_id, start_date, end_date) ==
    LET got == get_csv_data(csv_paths, series_id)
        filtered_df == SelectSeq(got.df, LAMBDA r : r.date >= start_date /\ r.date <= end_date)
        df == SelectSeq(filtered_df, LAMBDA r : r.value # NaN)
    IN  IF got.raised THEN [status |-> "raised", value |-> <<>>]
        ELSE [status |-> "returned", value |-> df]

\* the calls: any files under csv_paths, any window of the dates
CsvCalls ==
    {c \in [fn : {"CSVFetcher.fetch_series_data"},
            csv_paths : SeqsUpTo(CsvFiles, MaxCsvFiles),
            series_id : SeriesIds,
            start_date : Dates,
            end_date : Dates] : c.start_date <= c.end_date}

call_CSVFetcher_fetch_series_data ==
    /\ call.fn = "CSVFetcher.fetch_series_data"
    /\ ret = NoRet
    /\ ret' = CSVFetcher_fetch_series_data(call.csv_paths, call.series_id, call.start_date,
                                           call.end_date)
    /\ UNCHANGED <<call, ingestion_vars, cache_vars, seeds_vars, run>>

\* ------------------------------------------------------------------------
\* parse_metadata of the API adapters (data_fetch/data_sources/fred.py 22-34,
\* polygon.py 45-65)
\* ------------------------------------------------------------------------
\* a key of a JSON object of the upstream: absent, null, or with a value
JsonCell == {"absent", "null", "value"}

\* the keys parse_metadata reads with series[...], and one it reads with .get
FredSeries == [id : JsonCell, title : JsonCell, observation_start : JsonCell,
               observation_end : JsonCell, last_updated : JsonCell, units : JsonCell]

\* the response of /fred/series: no 'seriess' key, an empty list, or a series
FredMetadataResponses ==
    [has_seriess : {FALSE}, seriess : {<<>>}] \cup
    [has_seriess : {TRUE}, seriess : {<<>>} \cup {<<x>> : x \in FredSeries}]

\* dict.get(key, default)
get(dict, key, default) == IF dict[key] = "absent" THEN default ELSE dict[key]

\* FREDFetcher.parse_metadata (fred.py 22-34): a missing key raises KeyError,
\* an empty list IndexError; a null passes as None
FREDFetcher_parse_metadata(response_json) ==
    LET series == response_json.seriess[1]
    IN  IF ~response_json.has_seriess \/ response_json.seriess = <<>>
          THEN [status |-> "raised", value |-> <<>>]
        ELSE IF \E k \in {"id", "title", "observation_start", "observation_end",
                          "last_updated"} : series[k] = "absent"
          THEN [status |-> "raised", value |-> <<>>]
        ELSE [status |-> "returned",
              value |-> [id |-> series.id,
                         title |-> series.title,
                         observation_start |-> series.observation_start,
                         observation_end |-> series.observation_end,
                         units |-> get(series, "units", "value"),
                         last_updated |-> series.last_updated]]

PolygonResults == [ticker : JsonCell, name : JsonCell, list_date : JsonCell,
                   currency_name : JsonCell]

\* the response of /v3/reference/tickers: the 'results' key is absent or
\* holds an object
PolygonMetadataResponses == [has_results : BOOLEAN, results : PolygonResults]

\* PolygonFetcher.parse_metadata (polygon.py 45-65): only a missing 'results'
\* raises; every field of it is read with .get
PolygonFetcher_parse_metadata(response_json) ==
    LET results == response_json.results
    IN  IF ~response_json.has_results
          THEN [status |-> "raised", value |-> <<>>]
        ELSE [status |-> "returned",
              value |-> [id |-> get(results, "ticker", "null"),
                         title |-> get(results, "name", "null"),
                         observation_start |-> get(results, "list_date", "value"),
                         observation_end |-> "value",
                         units |-> get(results, "currency_name", "null"),
                         last_updated |-> "value"]]

ParseMetadataCalls ==
    [fn : {"FREDFetcher.parse_metadata"}, response_json : FredMetadataResponses] \cup
    [fn : {"PolygonFetcher.parse_metadata"}, response_json : PolygonMetadataResponses]

call_parse_metadata ==
    /\ call.fn \in {"FREDFetcher.parse_metadata", "PolygonFetcher.parse_metadata"}
    /\ ret = NoRet
    /\ ret' = IF call.fn = "FREDFetcher.parse_metadata"
                THEN FREDFetcher_parse_metadata(call.response_json)
              ELSE PolygonFetcher_parse_metadata(call.response_json)
    /\ UNCHANGED <<call, ingestion_vars, cache_vars, seeds_vars, run>>

\* ------------------------------------------------------------------------
\* DataFetcher.save_metadata on the rows of the DataSeries table
\* (base.py 82-112, dashboard/models/data_series.py 8-12)
\* ------------------------------------------------------------------------
\* the metadata fetch_metadata returns for a series: the upstream answers
\* with the id it was asked for, the descriptive fields are any
Metadata == [id : SeriesIds, title : {"Real GDP", "CPI"},
             frequency : {"Quarterly", "Monthly"}, units : {"Index", "Percent"}]

\* a bug: a row is created whether or not the series_id has one
update_or_create_row_always_creates(rows, series_id, defaults) ==
    Append(rows, [series_id |-> series_id, name |-> defaults.name,
                  frequency |-> defaults.frequency, units |-> defaults.units])

\* DataSeries.objects.update_or_create(series_id=..., defaults=...) (base.py
\* 92-107): the row with this series_id gets the defaults, or a row is created
update_or_create_row(rows, series_id, defaults) ==
    LET matching == {i \in DOMAIN rows : rows[i].series_id = series_id}
    IN  IF matching = {}
          THEN Append(rows, [series_id |-> series_id, name |-> defaults.name,
                             frequency |-> defaults.frequency, units |-> defaults.units])
        ELSE [i \in DOMAIN rows |->
                IF i \in matching
                  THEN [rows[i] EXCEPT !.name = defaults.name,
                                       !.frequency = defaults.frequency,
                                       !.units = defaults.units]
                ELSE rows[i]]

\* save_metadata once for each metadata of the list, one call after the other
RECURSIVE save_metadata_calls(_, _)
save_metadata_calls(rows, metadatas) ==
    IF metadatas = <<>> THEN rows
    ELSE LET metadata == Head(metadatas)
         IN  save_metadata_calls(
                 update_or_create_row(rows, metadata.id,
                                      [name |-> metadata.title,
                                       frequency |-> metadata.frequency,
                                       units |-> metadata.units]),
                 Tail(metadatas))

SaveMetadataCalls ==
    [fn : {"DataFetcher.save_metadata"}, metadatas : SeqsUpTo(Metadata, MaxSaves)]

call_save_metadata ==
    /\ call.fn = "DataFetcher.save_metadata"
    /\ ret = NoRet
    /\ ret' = [status |-> "returned", value |-> save_metadata_calls(<<>>, call.metadatas)]
    /\ UNCHANGED <<call, ingestion_vars, cache_vars, seeds_vars, run>>

\* ------------------------------------------------------------------------
\* calculate_returns (dashboard/models/economic_data_point.py 26-57 and
\* dashboard/utils/returns.py 6-43, the same computation)
\* ------------------------------------------------------------------------
\* lines 41-46: the periods of pct_change, 0 for a frequency it rejects
periods(data_frequency) ==
    IF data_frequency = "Monthly" THEN 12
    ELSE IF data_frequency = "Quarterly" THEN 4
    ELSE 0

\* (date, value) pairs, sorted by date; pct_change(periods) is the fraction
\* (value - value periods rows before) / (value periods rows before), kept as
\* <<numerator, denominator>>, and NaN on the first rows, which dropna removes
calculate_returns(time_series, data_frequency) ==
    LET df == SortSeq(time_series, LAMBDA a, b : a[1] < b[1])
        p == periods(data_frequency)
    IN  IF p = 0 THEN [status |-> "raised", value |-> <<>>]
        ELSE [status |-> "returned",
              value |-> [i \in 1..(IF Len(df) > p THEN Len(df) - p ELSE 0) |->
                            [date |-> df[i + p][1],
                             value |-> df[i + p][2],
                             yoy_change |-> <<df[i + p][2] - df[i][2], df[i][2]>>]]]

\* n data points on consecutive dates, the first k with the lower value, as
\* the queryset hands them over: by date, or latest first
DataPoints(n, k, latest_first) ==
    [i \in 1..n |->
        LET d == IF latest_first THEN n + 1 - i ELSE i
        IN  <<d, IF d <= k THEN 10 ELSE 20>>]

CalculateReturnsCalls ==
    {[fn |-> "calculate_returns", data_points |-> DataPoints(n, k, o), data_frequency |-> f] :
        n \in 0..MaxPoints, k \in 0..MaxPoints, o \in BOOLEAN,
        f \in {"Monthly", "Quarterly", "Daily"}}

call_calculate_returns ==
    /\ call.fn = "calculate_returns"
    /\ ret = NoRet
    /\ ret' = calculate_returns(call.data_points, call.data_frequency)
    /\ UNCHANGED <<call, ingestion_vars, cache_vars, seeds_vars, run>>

\* ------------------------------------------------------------------------
\* load_csv_to_bq (data_pipeline/utils/utils.py 201-250) on the schemas of
\* seeds.py 126-140.  A row is a dictionary: a function from the names of its
\* fields.
\* ------------------------------------------------------------------------
\* Python's None in a numeric column
NoValue == -2

economic_schema ==
    <<[name |-> "series_id", field_type |-> "STRING", mode |-> "REQUIRED"],
      [name |-> "date", field_type |-> "DATE", mode |-> "REQUIRED"],
      [name |-> "component", field_type |-> "STRING", mode |-> "NULLABLE"],
      [name |-> "value", field_type |-> "FLOAT64", mode |-> "NULLABLE"]>>

financial_schema ==
    <<[name |-> "series_id", field_type |-> "STRING", mode |-> "REQUIRED"],
      [name |-> "date", field_type |-> "DATE", mode |-> "REQUIRED"],
      [name |-> "open", field_type |-> "FLOAT64", mode |-> "NULLABLE"],
      [name |-> "high", field_type |-> "FLOAT64", mode |-> "NULLABLE"],
      [name |-> "low", field_type |-> "FLOAT64", mode |-> "NULLABLE"],
      [name |-> "close", field_type |-> "FLOAT64", mode |-> "NULLABLE"],
      [name |-> "volume", field_type |-> "INTEGER", mode |-> "NULLABLE"]>>

\* None, as it stands in the column of that name: the empty string for a
\* text, NoDate for a date, NoValue for a number
None(name) ==
    IF name \in {"series_id", "component"} THEN ""
    ELSE IF name = "date" THEN NoDate
    ELSE NoValue

\* row.get(name)
row_get(row, name) == IF name \in DOMAIN row THEN row[name] ELSE None(name)

\* isinstance(value, float) and pd.isna(value): the texts and the date
\* strings of the rows are no floats
isna(name, value) == name \notin {"series_id", "component", "date"} /\ value = NaN

\* line 208
dedup_key(row) ==
    <<row_get(row, "series_id"), row_get(row, "date"), row_get(row, "component")>>

\* a bug: of the rows with one key the last is kept
unique_new_rows_keep_last(data_rows, seen) ==
    LET n == Len(data_rows)
        keep == {i \in 1..n : \A j \in (i + 1)..n : dedup_key(data_rows[j]) # dedup_key(data_rows[i])}
        F[k \in 0..n] ==
            IF k = 0 THEN <<>>
            ELSE IF k \in keep THEN Append(F[k - 1], data_rows[k]) ELSE F[k - 1]
    IN  F[n]

\* lines 204-211: the loop over data_rows with the set of the keys seen
RECURSIVE unique_new_rows(_, _)
unique_new_rows(data_rows, seen) ==
    IF data_rows = <<>> THEN <<>>
    ELSE LET row == Head(data_rows)
             key == dedup_key(row)
         IN  IF key \notin seen
               THEN <<row>> \o unique_new_rows(Tail(data_rows), seen \cup {key})
             ELSE unique_new_rows(Tail(data_rows), seen)

\* lines 216-231, the loop over the schema for one row: the row is invalid
\* when a REQUIRED field is None or NaN
row_valid(row, schema) ==
    \A f \in DOMAIN schema :
        schema[f].mode = "REQUIRED" =>
            LET value == row_get(row, schema[f].name)
            IN  value # None(schema[f].name) /\ ~isna(schema[f].name, value)

\* lines 217-229: the new row has the fields of the schema, NaN of a numeric
\* field replaced by None
new_row(row, schema) ==
    [name \in {schema[f].name : f \in DOMAIN schema} |->
        LET value == row_get(row, name)
            field == schema[CHOOSE f \in DOMAIN schema : schema[f].name = name]
        IN  IF field.field_type \in {"FLOAT64", "INTEGER"} /\ isna(name, value)
              THEN None(name)
            ELSE value]

\* lines 213-231
filtered_rows(rows, schema) ==
    LET valid == SelectSeq(rows, LAMBDA row : row_valid(row, schema))
    IN  [i \in DOMAIN valid |-> new_row(valid[i], schema)]

\* lines 201-250: the rows of the load job are appended to the table
\* (WRITE_APPEND), or the job raises and the table is as before
load_csv_to_bq(table, data_rows, schema) ==
    table \o filtered_rows(unique_new_rows(data_rows, {}), schema)

\* a dictionary without entries
EmptyDict == [name \in {} |-> NoValue]

\* the dictionaries with the name, or without it
Field(name, cells) == {EmptyDict} \cup {name :> cell : cell \in cells}

\* the rows seeds.py 228-233 and 323-327 build (the component is the column
\* of a CSV file; a row from FRED has none), and such rows with a field
\* missing or an empty cell; the values of a repeated date may differ
EconomicRows ==
    {s @@ d @@ c @@ v : s \in Field("series_id", {"GDPC1"}), d \in Field("date", Dates),
                        c \in Field("component", {"M"}), v \in Field("value", {10, 20, NaN})}

\* a row the table holds before the load
StoredRow == [series_id |-> "GDPC1", date |-> 1, component |-> "M", value |-> 10]

LoadCsvCalls ==
    [fn : {"load_csv_to_bq"}, table : {<<>>, <<StoredRow>>},
     data_rows : SeqsUpTo(EconomicRows, MaxLoadRows), schema : {economic_schema}]

call_load_csv_to_bq ==
    /\ call.fn = "load_csv_to_bq"
    /\ ret = NoRet
    /\ \/ ret' = [status |-> "returned",
                  value |-> load_csv_to_bq(call.table, call.data_rows, call.schema)]
       \/ ret' = [status |-> "raised", value |-> call.table]
    /\ UNCHANGED <<call, ingestion_vars, cache_vars, seeds_vars, run>>

\* ------------------------------------------------------------------------
\* merge_data_point (data_pipeline/utils/bigquery_utils.py 123-189).  The
\* two permanent tables are bags of rows; kwargs is a dictionary.
\* ------------------------------------------------------------------------
\* line 144
allowed == <<"open", "high", "low", "close", "volume">>

\* the rows of a bag, each replaced by its image under f
RECURSIVE BagMap(_, _)
BagMap(f(_), B) ==
    IF BagToSet(B) = {} THEN EmptyBag
    ELSE LET t == CHOOSE x \in BagToSet(B) : TRUE
             rest == [x \in BagToSet(B) \ {t} |-> B[x]]
         IN  BagMap(f, rest) (+) [x \in {f(t)} |-> B[t]]

\* lines 134-155: the ValueError raised before any statement is sent
merge_raises_ValueError(data_type, kwargs) ==
    IF data_type = "economic" THEN "value" \notin DOMAIN kwargs
    ELSE IF data_type = "financial" THEN Range(allowed) \cap DOMAIN kwargs = {}
    ELSE TRUE

\* lines 139 and 145-151: the columns of the UPDATE SET clause
set_clause(data_type, kwargs) ==
    IF data_type = "economic" THEN {"value"} ELSE Range(allowed) \cap DOMAIN kwargs

\* lines 140-141, 152-153 and 170-181: the row of the INSERT, a parameter
\* without keyword argument being NULL
insert_vals(data_type, series_id, date_str, kwargs) ==
    IF data_type = "economic"
      THEN [series_id |-> series_id, date |-> date_str, value |-> kwargs["value"]]
    ELSE [series_id |-> series_id, date |-> date_str,
          open |-> row_get(kwargs, "open"), high |-> row_get(kwargs, "high"),
          low |-> row_get(kwargs, "low"), close |-> row_get(kwargs, "close"),
          volume |-> row_get(kwargs, "volume")]

\* a bug: the row is inserted whether or not the key is matched
merge_sql_insert_only(T, data_type, series_id, date_str, kwargs) ==
    T (+) SetToBag({insert_vals(data_type, series_id, date_str, kwargs)})

\* lines 157-168: MERGE ... ON T.series_id = S.series_id AND T.date = S.date
\* WHEN MATCHED THEN UPDATE SET ... WHEN NOT MATCHED THEN INSERT ..., with
\* the one source row (@series_id, @date)
merge_sql(T, data_type, series_id, date_str, kwargs) ==
    LET matched(t) == t.series_id = series_id /\ t.date = date_str
        updated(t) ==
            IF matched(t)
              THEN [name \in DOMAIN t |->
                       IF name \in set_clause(data_type, kwargs) THEN kwargs[name] ELSE t[name]]
            ELSE t
    IN  IF \E t \in BagToSet(T) : matched(t)
          THEN BagMap(updated, T)
        ELSE T (+) SetToBag({insert_vals(data_type, series_id, date_str, kwargs)})

\* lines 123-189 on the tables [economic |-> ..., financial |-> ...]: the
\* ValueError, or the query job, which commits the MERGE or raises
\* GoogleAPIError (job_ok tells which)
merge_data_point(tables, data_type, series_id, date_str, kwargs, job_ok) ==
    IF merge_raises_ValueError(data_type, kwargs)
      THEN [status |-> "raised", value |-> tables]
    ELSE IF ~job_ok THEN [status |-> "raised", value |-> tables]
    ELSE [status |-> "returned",
          value |-> [tables EXCEPT ![data_type] =
                        merge_sql(tables[data_type], data_type, series_id, date_str, kwargs)]]

\* economic tables with at most one row per key
EconomicTables ==
    {SetToBag(rows) : rows \in {R \in SUBSET [series_id : {"GDPC1"}, date : Dates, value : {10, 20}] :
                                   \A r1, r2 \in R : r1.date = r2.date => r1 = r2}}

\* a financial row with every column set, and one whose columns are NULL
FinancialRow(series_id, date_str, v) ==
    [series_id |-> series_id, date |-> date_str, open |-> v, high |-> v, low |-> v,
     close |-> v, volume |-> v]

FinancialTables ==
    {SetToBag(rows) : rows \in SUBSET {FinancialRow("GDPC1", 1, 10), FinancialRow("GDPC1", 2, NoValue)}}

\* the keyword arguments: value=..., any of the financial columns, or none
EconomicKwargs == Field("value", {10, 20, NoValue})

FinancialKwargs == {[name \in names |-> 20] : names \in SUBSET Range(allowed)}

MergeCalls ==
    [fn : {"merge_data_point"},
     tables : [economic : EconomicTables, financial : {EmptyBag}],
     data_type : {"economic", "stock"}, series_id : SeriesIds, date_str : Dates,
     kwargs : EconomicKwargs]
    \cup
    [fn : {"merge_data_point"},
     tables : [economic : {EmptyBag}, financial : FinancialTables],
     data_type : {"financial"}, series_id : SeriesIds, date_str : Dates,
     kwargs : FinancialKwargs]

call_merge_data_point ==
    /\ call.fn = "merge_data_point"
    /\ ret = NoRet
    /\ \E job_ok \in BOOLEAN :
         ret' = merge_data_point(call.tables, call.data_type, call.series_id, call.date_str,
                                 call.kwargs, job_ok)
    /\ UNCHANGED <<call, ingestion_vars, cache_vars, seeds_vars, run>>

\* ------------------------------------------------------------------------
\* load_csv_in_chunks_to_bq (data_pipeline/utils/utils.py 162-199)
\* ------------------------------------------------------------------------
\* the dates of the rows of a bulk load
ChunkDates == 1..MaxChunkDate

\* lines 186-199, the while loop from current_start on: the lists of rows
\* handed to load_csv_to_bq, one for each interval that holds a row
RECURSIVE chunks_from(_, _, _, _)
chunks_from(df, current_start, max_date, chunk_size_days) ==
    IF ~(current_start < max_date) THEN <<>>
    ELSE LET current_end == current_start + chunk_size_days
             chunk_df == SelectSeq(df, LAMBDA row : /\ row["date"] >= current_start
                                                    /\ row["date"] < current_end)
             rest == chunks_from(df, current_end, max_date, chunk_size_days)
         IN  IF chunk_df # <<>> THEN <<chunk_df>> \o rest ELSE rest

\* lines 173-184: nothing for an empty list; the rows without date are
\* dropped (to_datetime turns None into NaT), the others sorted by date
chunks(data_rows, chunk_size_days) ==
    LET dated == SelectSeq(data_rows, LAMBDA row : row_get(row, "date") # NoDate)
        df == SortSeq(dated, LAMBDA a, b : a["date"] < b["date"])
        dates == {df[i]["date"] : i \in DOMAIN df}
    IN  IF data_rows = <<>> \/ df = <<>> THEN <<>>
        ELSE chunks_from(df, CHOOSE d \in dates : \A e \in dates : d <= e, Max(dates),
                         chunk_size_days)

\* the chunks, loaded one after the other
RECURSIVE load_chunks(_, _, _)
load_chunks(table, chunk_list, schema) ==
    IF chunk_list = <<>> THEN table
    ELSE load_chunks(load_csv_to_bq(table, Head(chunk_list), schema), Tail(chunk_list), schema)

load_csv_in_chunks_to_bq(table, data_rows, schema, chunk_size_days) ==
    [status |-> "returned",
     value |-> [chunks |-> chunks(data_rows, chunk_size_days),
                table |-> load_chunks(table, chunks(data_rows, chunk_size_days), schema)]]

\* the rows seeds.py 193-201 builds for a financial CSV file, and such a row
\* without date; a column may be None
FinancialRows ==
    {FinancialRow("vix", d, v) : d \in ChunkDates \cup {NoDate}, v \in {10}}

\* chunk_size_days is a positive number of days
ChunkCalls ==
    [fn : {"load_csv_in_chunks_to_bq"}, table : {<<>>},
     data_rows : SeqsUpTo(FinancialRows, MaxChunkRows), schema : {financial_schema},
     chunk_size_days : 1..MaxChunkSizeDays]

call_load_csv_in_chunks_to_bq ==
    /\ call.fn = "load_csv_in_chunks_to_bq"
    /\ ret = NoRet
    /\ ret' = load_csv_in_chunks_to_bq(call.table, call.data_rows, call.schema,
                                       call.chunk_size_days)
    /\ UNCHANGED <<call, ingestion_vars, cache_vars, seeds_vars, run>>

\* ------------------------------------------------------------------------
\* DataFetcher.make_request_with_backoff (base.py 60-80) as a function of its
\* argument max_retries and of the upstream's answers to the requests
\* ------------------------------------------------------------------------
\* the loop from the given attempt on: "for attempt in range(1, max_retries +
\* 1)".  When the range is exhausted the function ends without a return
\* statement and the caller gets None.
RECURSIVE attempts_from(_, _, _, _)
attempts_from(attempt, max_retries_arg, answers, sleeps) ==
    IF attempt > max_retries_arg
      THEN [status |-> "returned",
            value |-> [response |-> "None", calls |-> attempt - 1, sleeps |-> sleeps]]
    ELSE IF ~IsRequestException(answers[attempt])
      THEN [status |-> "returned",
            value |-> [response |-> answers[attempt], calls |-> attempt, sleeps |-> sleeps]]
    ELSE IF attempt = max_retries_arg
      THEN [status |-> "raised",
            value |-> [response |-> answers[attempt], calls |-> attempt, sleeps |-> sleeps]]
    ELSE attempts_from(attempt + 1, max_retries_arg, answers,
                       Append(sleeps, sleep_time(attempt)))

\* the calls: max_retries from -1 on, and what the upstream answers to the
\* first, second, ... request
BackoffCalls ==
    [fn : {"make_request_with_backoff"}, max_retries : -1..MaxRetriesArg,
     answers : [1..MaxRetriesArg -> Answers]]

call_make_request_with_backoff ==
    /\ call.fn = "make_request_with_backoff"
    /\ ret = NoRet
    /\ ret' = attempts_from(1, call.max_retries, call.answers, <<>>)
    /\ UNCHANGED <<call, ingestion_vars, cache_vars, seeds_vars, run>>

\* ------------------------------------------------------------------------
\* the function applications: any call, applied once
\* ------------------------------------------------------------------------
FunctionsInit ==
    /\ IdleIngestion
    /\ EmptyDashboard
    /\ NoSeeds
    /\ NoRuns
    /\ ret = NoRet
    /\ \/ call \in CsvCalls
       \/ call \in ParseMetadataCalls
       \/ call \in SaveMetadataCalls
       \/ call \in CalculateReturnsCalls
       \/ call \in BackoffCalls
       \/ call \in ChunkCalls
       \/ call \in MergeCalls
       \/ call \in LoadCsvCalls

FunctionsNext ==
    \/ call_CSVFetcher_fetch_series_data
    \/ call_parse_metadata
    \/ call_save_metadata
    \/ call_calculate_returns
    \/ call_make_request_with_backoff
    \/ call_load_csv_in_chunks_to_bq
    \/ call_merge_data_point
    \/ call_load_csv_to_bq

FunctionsSpec == FunctionsInit /\ [][FunctionsNext]_vars

\* ------------------------------------------------------------------------
\* Command.process_csv_data (dashboard/management/commands/seeds.py 124-242)
\* for a financial CSV file, here 'vix'.  The file is a dated series that
\* grows at its end between the runs of the command.
\* ------------------------------------------------------------------------
\* utils.py 162: the default of chunk_size_days
DefaultChunkSizeDays == 3000

\* the key of csv_file_paths
Source == "vix"

\* a row is added to the file, dated after the rows it has
csv_append ==
    /\ seeds_pc = "idle"
    /\ \E d \in ChunkDates :
         /\ \A e \in csv_file : e < d
         /\ csv_file' = csv_file \cup {d}
    /\ UNCHANGED <<financial_table, last_data_date, seeds_pc>>
    /\ UNCHANGED <<ingestion_vars, fn_vars, cache_vars, run>>

\* lines 145-179: the file is read, and csv_fetcher.save_metadata stores the
\* descriptor through update_or_create (base.py 92-107), which replaces the
\* metadata map and leaves last_data_date, no default, as it is.  (When
\* read_csv or save_metadata raises, the loop goes on to the next file and
\* nothing has changed.)
seeds_save_metadata ==
    /\ seeds_pc = "idle"
    /\ csv_file # {}
    /\ data_series' = update_or_create(data_series, Source, [last_updated |-> now])
    /\ last_data_date' = IF Source \in DOMAIN last_data_date THEN last_data_date
                         ELSE (Source :> NoDate) @@ last_data_date
    /\ seeds_pc' = "rows"
    /\ UNCHANGED <<csv_file, financial_table>>
    /\ UNCHANGED <<now, economic_table, staging, queue, batch, dispatched, pc, cur, req,
                   outcome, celery_queue, celery_worker>>
    /\ UNCHANGED <<fn_vars, cache_vars, run>>

\* lines 188-201: the rows after last_data_date, by date
financial_rows(dates, last_data_main) ==
    LET new == {d \in dates : ~(last_data_main # NoDate /\ d <= last_data_main)}
        F[k \in 0..MaxChunkDate] ==
            IF k = 0 THEN <<>>
            ELSE IF k \in new THEN Append(F[k - 1], FinancialRow(Source, k, 10))
            ELSE F[k - 1]
    IN  F[MaxChunkDate]

\* lines 181-212: the new rows are loaded in chunks, then last_fetched_date
\* and last_data_date are set to the latest of their dates and the
\* descriptor is saved; without new rows nothing is done.  When a load job
\* raises, the exception leaves the command.
seeds_load_rows ==
    /\ seeds_pc = "rows"
    /\ seeds_pc' = "idle"
    /\ LET rows == financial_rows(csv_file, last_data_date[Source])
           loaded == load_csv_in_chunks_to_bq(financial_table, rows, financial_schema,
                                              DefaultChunkSizeDays)
           new_latest == Max({rows[i]["date"] : i \in DOMAIN rows})
       IN  IF rows = <<>>
             THEN UNCHANGED <<data_series, financial_table, last_data_date>>
           ELSE \/ /\ financial_table' = loaded.value.table
                   /\ data_series' = [data_series EXCEPT ![Source] =
                                         [last_fetched_date |-> new_latest,
                                          last_updated |-> now]]
                   /\ last_data_date' = [last_data_date EXCEPT ![Source] = new_latest]
                \/ /\ loaded.value.chunks # <<>>
                   /\ UNCHANGED <<data_series, financial_table, last_data_date>>
    /\ UNCHANGED csv_file
    /\ UNCHANGED <<now, economic_table, staging, queue, batch, dispatched, pc, cur, req,
                   outcome, celery_queue, celery_worker>>
    /\ UNCHANGED <<fn_vars, cache_vars, run>>

SeedsNext ==
    \/ Tick
    \/ csv_append
    \/ seeds_save_metadata
    \/ seeds_load_rows

SeedsSpec == Init /\ [][SeedsNext]_vars

\* ------------------------------------------------------------------------
\* two executions of fetch_and_store_single_series (data_pipeline/tasks.py
\* 23-66) for one series at the same time, each in a process of its own with
\* its own DataSeries instance in memory: nothing in the tasks or in
\* save_series_data takes a lock on the series
\* ------------------------------------------------------------------------
\* the series the executions are about
SameSeries == "GDPC1"

\* tasks.py 46-58: the descriptor is read into the process, or it does not
\* exist and save_metadata creates it (when save_metadata raises the
\* execution is over and nothing has changed)
run_get(p) ==
    /\ run[p].pc = "idle"
    /\ IF SameSeries \in DOMAIN data_series
         THEN /\ run' = [run EXCEPT ![p] = [pc |-> "fetch", initial_fetch |-> FALSE,
                                            inst |-> data_series[SameSeries],
                                            staging_rows |-> <<>>]]
              /\ UNCHANGED data_series
       ELSE LET ds == update_or_create(data_series, SameSeries, [last_updated |-> now])
            IN  /\ data_series' = ds
                /\ run' = [run EXCEPT ![p] = [pc |-> "fetch", initial_fetch |-> TRUE,
                                              inst |-> ds[SameSeries],
                                              staging_rows |-> <<>>]]
    /\ UNCHANGED <<now, economic_table, staging, queue, batch, dispatched, pc, cur, req,
                   outcome, celery_queue, celery_worker>>
    /\ UNCHANGED <<fn_vars, cache_vars, seeds_vars>>

\* base.py 128-212: the window from the instance in memory, the
\* observations of the upstream, the rows left for staging; the execution is
\* over when the window is empty, the request raises, or no row is left
run_fetch(p) ==
    /\ run[p].pc = "fetch"
    /\ LET r == run[p]
           start == start_date_dt(r.initial_fetch, r.inst.last_fetched_date, now)
       IN  IF start > now
             THEN run' = [run EXCEPT ![p] = IdleRun]
           ELSE \/ run' = [run EXCEPT ![p] = IdleRun]
                \/ \E observations \in SeqsUpTo({o \in Observation : o.date <= now}, MaxObs) :
                     LET rows == StagingRows(SameSeries, observations, r.initial_fetch,
                                             r.inst.last_fetched_date)
                     IN  run' = [run EXCEPT ![p] =
                                    IF rows = <<>> THEN IdleRun
                                    ELSE [r EXCEPT !.pc = "merge", !.staging_rows = rows]]
    /\ UNCHANGED <<now, data_series, economic_table, staging, queue, batch, dispatched, pc,
                   cur, req, outcome, celery_queue, celery_worker>>
    /\ UNCHANGED <<fn_vars, cache_vars, seeds_vars>>

\* base.py 214-272: the staging table of this execution is loaded and the
\* MERGE job runs, as one statement of the warehouse; or a job raises
run_merge(p) ==
    /\ run[p].pc = "merge"
    /\ \/ /\ economic_table' = MERGE(economic_table, BagOfSeq(run[p].staging_rows))
          /\ run' = [run EXCEPT ![p].pc = "update"]
       \/ /\ run' = [run EXCEPT ![p] = IdleRun]
          /\ UNCHANGED economic_table
    /\ UNCHANGED <<now, data_series, staging, queue, batch, dispatched, pc, cur, req,
                   outcome, celery_queue, celery_worker>>
    /\ UNCHANGED <<fn_vars, cache_vars, seeds_vars>>

\* base.py 274-283: last_fetched_date of the instance in memory is set to
\* the latest staged date and the instance is saved, every column of it
run_update(p) ==
    /\ run[p].pc = "update"
    /\ data_series' = [data_series EXCEPT ![SameSeries] =
                          [run[p].inst EXCEPT
                              !.last_fetched_date = new_latest_date(run[p].staging_rows),
                              !.last_updated = now]]
    /\ run' = [run EXCEPT ![p] = IdleRun]
    /\ UNCHANGED <<now, economic_table, staging, queue, batch, dispatched, pc, cur, req,
                   outcome, celery_queue, celery_worker>>
    /\ UNCHANGED <<fn_vars, cache_vars, seeds_vars>>

ConcurrentNext ==
    \/ Tick
    \/ \E p \in FlowRuns : run_get(p)
    \/ \E p \in FlowRuns : run_fetch(p)
    \/ \E p \in FlowRuns : run_merge(p)
    \/ \E p \in FlowRuns : run_update(p)

ConcurrentSpec == Init /\ [][ConcurrentNext]_vars

\* ------------------------------------------------------------------------
\* the quadrantData resolver and its cache (dashboard/schema/queries.py
\* 27-131).  Dates are month numbers from 1, so that the quarters start on
\* the months 1, 4, 7, ...; a growth is kept in units of 0.0001 (it is
\* rounded to four places); a yoy_change is a fraction <<numerator,
\* denominator>>.  The clock counts ticks of 1/TicksPerSecond s.
\* ------------------------------------------------------------------------
\* the data points stored before the first ingestion: quarters of GDPC1 and
\* months of CPIAUCSL, as (date, value)
InitialPoints ==
    [s \in SeriesIds |->
        IF s = "GDPC1"
          THEN [i \in 1..InitialQuarters |-> <<3 * (i - 1) + 1, IF i <= 4 THEN 10 ELSE 20>>]
        ELSE [i \in 1..InitialMonths |-> <<i, IF i <= 12 THEN 10 ELSE 20>>]]

\* the date of the observation after the last stored one
NextDate(sid, stored) ==
    IF sid = "GDPC1" THEN stored[Len(stored)][1] + 3 ELSE stored[Len(stored)][1] + 1

\* int(last_updated.timestamp()) (line 46): whole seconds
timestamp(t) == t \div TicksPerSecond

\* line 48: the f-string of the arguments and the timestamp
cache_key(start_date, end_date, data_points, ts) == <<start_date, end_date, data_points, ts>>

\* DataSeries.get_time_series (data_series.py 50-53): sorted by date
get_time_series(sid) == SortSeq(points[sid], LAMBDA a, b : a[1] < b[1])

\* the rows of a frame at the positions I, in their order
Rows(df, I) ==
    [k \in 1..Cardinality(I) |->
        df[CHOOSE i \in I : Cardinality({j \in I : j < i}) = k - 1]]

\* the first month of the quarter of a date (the 'QS' bins of line 73)
QuarterStart(d) == d - ((d - 1) % 3)

\* line 73: infl_df.resample("QS").first(): of each quarter the first row,
\* dated on the quarter's start (a quarter without a row gives NaN, which
\* line 76 drops)
resample_QS_first(df) ==
    LET firsts == {i \in DOMAIN df : \A j \in DOMAIN df :
                      j < i => QuarterStart(df[j].date) # QuarterStart(df[i].date)}
        rows == Rows(df, firsts)
    IN  [k \in DOMAIN rows |-> [rows[k] EXCEPT !.date = QuarterStart(rows[k].date)]]

\* the dates of a frame's index
Index(df) == {df[i].date : i \in DOMAIN df}

\* lines 76-77: df.reindex(dates).dropna() and df.loc[dates]
loc(df, dates) == Rows(df, {i \in DOMAIN df : df[i].date \in dates})

\* the difference of two fractions
Minus(a, b) == <<a[1] * b[2] - b[1] * a[2], a[2] * b[2]>>

\* lines 80-85: yoy_change - yoy_change.shift(1), and dropna: the first row
\* has no rate_of_change
rate_of_change(df) ==
    [k \in 1..(IF Len(df) > 1 THEN Len(df) - 1 ELSE 0) |->
        [date |-> df[k + 1].date,
         rate_of_change |-> Minus(df[k + 1].yoy_change, df[k].yoy_change)]]

\* round(x * 100, 4) of a fraction x, in units of 0.0001, half to even
round_percent(x) ==
    LET n == x[1] * 1000000
        q == n \div x[2]
        r == n % x[2]
    IN  IF 2 * r < x[2] THEN q
        ELSE IF 2 * r > x[2] THEN q + 1
        ELSE IF q % 2 = 0 THEN q ELSE q + 1

\* lines 102: combined.tail(data_points)
tail(df, n) ==
    IF n >= Len(df) THEN df ELSE SubSeq(df, Len(df) - n + 1, Len(df))

\* lines 63-111: the result rows computed from the two stored series
quadrant_results(gdp_list, infl_list, start_date, end_date, data_points) ==
    LET gdp_df == calculate_returns(gdp_list, "Quarterly").value
        infl_df == calculate_returns(infl_list, "Monthly").value
        infl_q == resample_QS_first(infl_df)
        infl_aligned == loc(infl_q, Index(gdp_df))
        gdp_aligned == loc(gdp_df, Index(infl_aligned))
        gdp_roc == rate_of_change(gdp_aligned)
        infl_roc == rate_of_change(infl_aligned)
        combined == [k \in DOMAIN gdp_roc |->
                        [date |-> gdp_roc[k].date,
                         gdp_rate_of_change |-> gdp_roc[k].rate_of_change,
                         inflation_rate_of_change |-> infl_roc[k].rate_of_change]]
        filtered == SelectSeq(combined, LAMBDA row :
                        /\ (start_date # NoDate => row.date >= start_date)
                        /\ (end_date # NoDate => row.date <= end_date))
        last == tail(filtered, data_points)
    IN  [k \in DOMAIN last |->
            [date |-> last[k].date,
             gdp_growth |-> round_percent(last[k].gdp_rate_of_change),
             inflation_growth |-> round_percent(last[k].inflation_rate_of_change)]]

\* date.isoformat() (line 117): the year, month and day of the text
isoformat(d) == <<(d - 1) \div 12, ((d - 1) % 12) + 1, 1>>

\* datetime.strptime(text, "%Y-%m-%d").date() (line 54)
strptime(text) == text[1] * 12 + text[2]

\* a bug: the last result is not put into the cached list
to_cache_without_last(results) ==
    [k \in 1..(IF Len(results) > 0 THEN Len(results) - 1 ELSE 0) |->
        [date |-> isoformat(results[k].date),
         gdp_growth |-> results[k].gdp_growth,
         inflation_growth |-> results[k].inflation_growth]]

\* lines 113-120: the serialized list
to_cache(results) ==
    [k \in DOMAIN results |->
        [date |-> isoformat(results[k].date),
         gdp_growth |-> results[k].gdp_growth,
         inflation_growth |-> results[k].inflation_growth]]

\* lines 52-59: the cached list, deserialized
from_cache(cached_data) ==
    [k \in DOMAIN cached_data |->
        [date |-> strptime(cached_data[k].date),
         gdp_growth |-> cached_data[k].gdp_growth,
         inflation_growth |-> cached_data[k].inflation_growth]]

\* the arguments of the queries: the defaults, a start or an end date, a limit
StartDates == {NoDate, 19}

EndDates == {NoDate, 16}

DataPointsArgs == {1, 15}

\* Query.resolve_quadrant_data (lines 27-131)
resolve_quadrant_data ==
    /\ query.calls < MaxQueries
    /\ \E start_date \in StartDates, end_date \in EndDates, data_points \in DataPointsArgs :
         LET q == [NoQuery EXCEPT !.calls = query.calls + 1, !.start_date = start_date,
                                  !.end_date = end_date, !.data_points = data_points]
             lu == Max({series_last_updated[s] : s \in SeriesIds})
             key == cache_key(start_date, end_date, data_points, timestamp(lu))
             found == q' = [q EXCEPT !.found = TRUE, !.last_updated = lu, !.cache_key = key]
             results == quadrant_results(get_time_series("GDPC1"),
                                         get_time_series("CPIAUCSL"),
                                         start_date, end_date, data_points)
         IN  IF \E s \in SeriesIds : series_last_updated[s] = DoesNotExist
               THEN /\ query' = q
                    /\ UNCHANGED cache
             ELSE IF key \in DOMAIN cache /\ cache[key] # <<>>
               THEN /\ query' = [q EXCEPT !.found = TRUE, !.last_updated = lu,
                                          !.cache_key = key, !.hit = TRUE,
                                          !.returned = from_cache(cache[key])]
                    /\ UNCHANGED cache
             ELSE /\ query' = [q EXCEPT !.found = TRUE, !.last_updated = lu,
                                        !.cache_key = key, !.read_series = TRUE,
                                        !.returned = results]
                  /\ cache' = (key :> to_cache(results)) @@ cache
    /\ UNCHANGED <<clock, points, series_last_updated, ingesting>>
    /\ UNCHANGED <<ingestion_vars, fn_vars, seeds_vars, run>>

\* an ingestion stores a new data point of a series that has a descriptor
store_data_point(sid) ==
    /\ series_last_updated[sid] # DoesNotExist
    /\ sid \notin ingesting
    /\ Len(points[sid]) < Len(InitialPoints[sid]) + MaxNewPoints
    /\ \E v \in Values :
         points' = [points EXCEPT ![sid] = Append(@, <<NextDate(sid, @), v>>)]
    /\ ingesting' = ingesting \cup {sid}
    /\ UNCHANGED <<clock, series_last_updated, cache, query>>
    /\ UNCHANGED <<ingestion_vars, fn_vars, seeds_vars, run>>

\* the descriptor is saved, at its creation or at the end of an ingestion:
\* auto_now sets last_updated to the time of the save
save_series(sid) ==
    /\ sid \in ingesting \/ series_last_updated[sid] = DoesNotExist
    /\ series_last_updated' = [series_last_updated EXCEPT ![sid] = clock]
    /\ ingesting' = ingesting \ {sid}
    /\ UNCHANGED <<clock, points, cache, query>>
    /\ UNCHANGED <<ingestion_vars, fn_vars, seeds_vars, run>>

clock_Tick ==
    /\ clock < MaxTick
    /\ clock' = clock + 1
    /\ UNCHANGED <<points, series_last_updated, ingesting, cache, query>>
    /\ UNCHANGED <<ingestion_vars, fn_vars, seeds_vars, run>>

\* the two series with their stored data points; a descriptor may be missing
CacheInit ==
    /\ IdleIngestion
    /\ NoFunction
    /\ NoSeeds
    /\ NoRuns
    /\ clock = 1
    /\ points = InitialPoints
    /\ series_last_updated \in [SeriesIds -> {DoesNotExist, 1}]
    /\ ingesting = {}
    /\ cache = <<>>
    /\ query = NoQuery

CacheNext ==
    \/ clock_Tick
    \/ \E sid \in SeriesIds : store_data_point(sid)
    \/ \E sid \in SeriesIds : save_series(sid)
    \/ resolve_quadrant_data

CacheSpec == CacheInit /\ [][CacheNext]_vars

\* ------------------------------------------------------------------------
\* properties of the function applications
\* ------------------------------------------------------------------------
\* C21: for every window [start_date, end_date] the observations an adapter's
\* fetch returns are dated within the window, in ascending date order, and no
\* date occurs twice, whatever the order and repetition of the lines of the
\* file (here the CSV adapter).
C21_WindowOrderedUnique ==
    (call.fn = "CSVFetcher.fetch_series_data" /\ ret.status = "returned") =>
        /\ \A i \in DOMAIN ret.value :
              call.start_date <= ret.value[i].date /\ ret.value[i].date <= call.end_date
        /\ \A i, j \in DOMAIN ret.value : i < j => ret.value[i].date < ret.value[j].date

\* the file exposes a column named series_id
Exposes(file, series_id) == file.readable /\ series_id \in Range(file.columns)

\* C22: for an economic series_id the CSV adapter returns data only from a
\* file that exposes a column named series_id, and it fails (not found) when
\* no file of csv_paths exposes that column, for every set of files and
\* every scan order.
C22_CsvResolution ==
    (call.fn = "CSVFetcher.fetch_series_data" /\ ret.status # "pending") =>
        LET exposing == {i \in DOMAIN call.csv_paths :
                            Exposes(call.csv_paths[i], call.series_id)}
        IN  /\ ret.status = "returned" =>
                \E i \in exposing :
                    ret.value = SelectSeq(call.csv_paths[i].rows,
                                          LAMBDA r : /\ r.date >= call.start_date
                                                     /\ r.date <= call.end_date
                                                     /\ r.value # NaN)
            /\ exposing = {} => ret.status = "raised"

\* ------------------------------------------------------------------------
\* properties of the pipeline, continued
\* ------------------------------------------------------------------------
\* C23: a descriptor for a series_id comes into being only in the step that
\* follows a metadata request that returned for that series; when the metadata
\* fetch fails for a series without descriptor, the workflow ends with no
\* descriptor created, and rows are staged or merged only for a series that
\* has a descriptor.
C23_DescriptorAfterMetadata ==
    [][/\ \A sid \in SeriesIds :
            (sid \notin DOMAIN data_series /\ sid \in DOMAIN data_series') =>
                (pc = "fetch_metadata" /\ cur.series_id = sid /\ req.status = "returned")
       /\ (pc = "fetch_metadata" /\ req.status \in {"raised", "returned_none"}) =>
            /\ pc' = "idle"
            /\ UNCHANGED <<data_series, economic_table, staging>>
       /\ (economic_table' # economic_table \/ staging' # staging) =>
            cur.series_id \in DOMAIN data_series]_vars

\* the metadata fetch of the first series has failed: no descriptor, no row
C23_Witness ==
    /\ pc = "idle"
    /\ outcome = "failed"
    /\ batch = "raised"
    /\ dispatched > 0
    /\ data_series = <<>>
    /\ economic_table = EmptyBag
    /\ staging = {}

\* C24: save_metadata creates or updates: after any sequence of save_metadata
\* calls the DataSeries table holds exactly one descriptor for each series_id
\* that was saved (and none for another), and its title, frequency and units
\* are those of the most recent call for that series_id.
C24_UpsertSemantics ==
    (call.fn = "DataFetcher.save_metadata" /\ ret.status = "returned") =>
        \A sid \in SeriesIds :
            LET calls_for == {i \in DOMAIN call.metadatas : call.metadatas[i].id = sid}
                rows_for == {i \in DOMAIN ret.value : ret.value[i].series_id = sid}
            IN  IF calls_for = {} THEN rows_for = {}
                ELSE /\ Cardinality(rows_for) = 1
                     /\ \A i \in rows_for :
                          LET latest == call.metadatas[Max(calls_for)]
                          IN  /\ ret.value[i].name = latest.title
                              /\ ret.value[i].frequency = latest.frequency
                              /\ ret.value[i].units = latest.units

\* a series was saved twice, with another title, frequency and units the
\* second time, and another series in between
C24_Witness ==
    /\ call.fn = "DataFetcher.save_metadata"
    /\ ret.status = "returned"
    /\ Len(call.metadatas) = 3
    /\ call.metadatas[1].id = call.metadatas[3].id
    /\ call.metadatas[1].id # call.metadatas[2].id
    /\ call.metadatas[1].title # call.metadatas[3].title
    /\ call.metadatas[1].frequency # call.metadatas[3].frequency
    /\ call.metadatas[1].units # call.metadatas[3].units

\* an item with its three fields whose origin, in any spelling, has an
\* adapter in the registry and an API key
C25_Usable(item) ==
    /\ item.series_id # ""
    /\ item.data_type # ""
    /\ item.data_origin \in {"fred", "FRED"}

\* C25: the batch driver takes the items in order; an item whose origin, read
\* case-insensitively, has an adapter and an API key and that has its three
\* fields starts the per-series workflow; any other item is not processed: no
\* request, no change to the descriptors, the table or the staging tables, and
\* the driver stays running for the next item.
C25_InvalidItemsSkipped ==
    [][(pc = "idle" /\ batch = "running" /\ queue # <<>> /\ queue' # queue) =>
            /\ queue' = Tail(queue)
            /\ IF C25_Usable(Head(queue))
                 THEN /\ pc' \in {"fetch_metadata", "decide_date_range"}
                      /\ cur'.series_id = Head(queue).series_id
               ELSE /\ pc' = "idle"
                    /\ req' = NoReq
                    /\ batch' = "running"
                    /\ UNCHANGED <<data_series, economic_table, staging>>]_vars

\* the first item of the list was left out and the workflow of the second,
\* the last, has started
C25_Witness ==
    /\ pc = "fetch_metadata"
    /\ dispatched = 2
    /\ queue = <<>>
    /\ batch = "running"
    /\ data_series = <<>>

\* C26: fetch_metadata never returns partial metadata: on every upstream
\* response parse_metadata raises, or it returns a record whose id, title,
\* observation_start, observation_end and last_updated each hold a value
\* (present and not null), for the economic and for the market adapter.
C26_NoPartialMetadata ==
    (/\ call.fn \in {"FREDFetcher.parse_metadata", "PolygonFetcher.parse_metadata"}
     /\ ret.status = "returned") =>
        \A k \in {"id", "title", "observation_start", "observation_end", "last_updated"} :
            ret.value[k] = "value"

\* C30: calculate_returns on a series of n data points (n at least 12)
\* returns exactly n - 12 year-over-year rows, for Quarterly as well as for
\* Monthly frequency.
C30_ReturnsRowCount ==
    (/\ call.fn = "calculate_returns"
     /\ ret.status = "returned"
     /\ Len(call.data_points) >= 12) =>
        Len(ret.value) = Len(call.data_points) - 12

\* ------------------------------------------------------------------------
\* properties of the quadrantData cache
\* ------------------------------------------------------------------------
\* a step of resolve_quadrant_data that found both series
Resolves == query'.calls = query.calls + 1 /\ query'.found

\* the result computed from the data points stored now, for the arguments of
\* the call this step makes
FreshResult ==
    quadrant_results(get_time_series("GDPC1"), get_time_series("CPIAUCSL"),
                     query'.start_date, query'.end_date, query'.data_points)

\* C27: the cache key includes the latest last_updated of the two series:
\* when, since the previous query with the same arguments, a series'
\* last_updated has advanced and the data has changed (the entry of the
\* previous key is no longer the result of the stored data), the next query
\* returns the result computed from the current data and stores it under a
\* new key, and the entry under the old key stays as it is.
C27_InvalidationOnUpdate ==
    [][(/\ Resolves
        /\ query.found
        /\ query'.start_date = query.start_date
        /\ query'.end_date = query.end_date
        /\ query'.data_points = query.data_points
        /\ Max({series_last_updated[s] : s \in SeriesIds}) > query.last_updated
        /\ query.cache_key \in DOMAIN cache
        /\ from_cache(cache[query.cache_key]) # FreshResult) =>
            /\ query'.returned = FreshResult
            /\ query'.cache_key # query.cache_key
            /\ query'.cache_key \in DOMAIN cache'
            /\ from_cache(cache'[query'.cache_key]) = FreshResult
            /\ cache'[query.cache_key] = cache[query.cache_key]]_vars

\* C28: whenever the cache holds an entry under the key of the query, the
\* resolver returns exactly the cached items in their cached order and does
\* not read the series data or change the cache, whatever the cached value,
\* an empty list included.
C28_CacheHit ==
    [][(Resolves /\ query'.cache_key \in DOMAIN cache) =>
            /\ query'.returned = from_cache(cache[query'.cache_key])
            /\ ~query'.read_series
            /\ cache' = cache]_vars

\* C29: when the cache holds no entry under the key of the query, the
\* resolver computes the result from the stored series and stores under that
\* key a list with one item per returned data point: the cached list and the
\* returned list have the same length and, item by item, the same date and
\* growths; no other entry changes.
C29_CacheMiss ==
    [][(Resolves /\ query'.cache_key \notin DOMAIN cache) =>
            /\ query'.read_series
            /\ query'.returned = FreshResult
            /\ DOMAIN cache' = DOMAIN cache \cup {query'.cache_key}
            /\ \A k \in DOMAIN cache : cache'[k] = cache[k]
            /\ Len(cache'[query'.cache_key]) = Len(query'.returned)
            /\ \A i \in DOMAIN query'.returned :
                  LET item == cache'[query'.cache_key][i]
                      point == query'.returned[i]
                  IN  /\ strptime(item.date) = point.date
                      /\ item.gdp_growth = point.gdp_growth
                      /\ item.inflation_growth = point.inflation_growth]_vars

\* a query has missed the cache and returned two data points computed from
\* the series after both got a new data point, with a growth that is not zero
C29_Witness ==
    /\ query.found
    /\ query.read_series
    /\ Len(query.returned) = 2
    /\ query.returned[2].date = 19
    /\ query.returned[2].gdp_growth # 0
    /\ query.cache_key \in DOMAIN cache
    /\ Len(cache[query.cache_key]) = 2

\* ------------------------------------------------------------------------
\* properties of the bulk loads and of merge_data_point
\* ------------------------------------------------------------------------
\* the rows a returned load_csv_to_bq has appended to the table
Loaded == SubSeq(ret.value, Len(call.table) + 1, Len(ret.value))

\* the row at position k of the input is the first with its key
FirstOccurrence(k) ==
    \A j \in 1..(k - 1) : dedup_key(call.data_rows[j]) # dedup_key(call.data_rows[k])

\* the REQUIRED fields of the schema
Required(schema) == {schema[f].name : f \in {g \in DOMAIN schema : schema[g].mode = "REQUIRED"}}

\* C31: load_csv_to_bq appends to the table, without looking at its rows,
\* rows of which no two have the same (series_id, date, component); the row
\* loaded for a key is the first of the input with that key, and no loaded
\* row lacks a value for a REQUIRED field of the schema.
C31_LoadDeduplicatesAndFilters ==
    (call.fn = "load_csv_to_bq" /\ ret.status = "returned") =>
        /\ SubSeq(ret.value, 1, Len(call.table)) = call.table
        /\ \A i, j \in DOMAIN Loaded : i < j => dedup_key(Loaded[i]) # dedup_key(Loaded[j])
        /\ \A i \in DOMAIN Loaded :
              /\ \E k \in DOMAIN call.data_rows :
                    /\ FirstOccurrence(k)
                    /\ \A name \in DOMAIN Loaded[i] :
                          Loaded[i][name] = row_get(call.data_rows[k], name)
                          \/ (isna(name, row_get(call.data_rows[k], name))
                              /\ Loaded[i][name] = None(name))
              /\ \A name \in Required(call.schema) :
                    name \in DOMAIN Loaded[i] /\ Loaded[i][name] # None(name)
        /\ \A k \in DOMAIN call.data_rows :
              (FirstOccurrence(k) /\ Required(call.schema) \subseteq DOMAIN call.data_rows[k]) =>
                  \E i \in DOMAIN Loaded : dedup_key(Loaded[i]) = dedup_key(call.data_rows[k])

\* a load on a table that holds the row already: the input repeats a key with
\* another value, and the first of the two rows is appended
C31_Witness ==
    /\ call.fn = "load_csv_to_bq"
    /\ ret.status = "returned"
    /\ call.table = <<StoredRow>>
    /\ Len(call.data_rows) = 2
    /\ dedup_key(call.data_rows[1]) = dedup_key(StoredRow)
    /\ dedup_key(call.data_rows[2]) = dedup_key(StoredRow)
    /\ row_get(call.data_rows[1], "value") = 10
    /\ row_get(call.data_rows[2], "value") = 20
    /\ ret.value = <<StoredRow, StoredRow>>

\* the rows of a table under the key of the call
RowsAt(T) == {t \in BagToSet(T) : t.series_id = call.series_id /\ t.date = call.date_str}

\* the table holds at most one row per (series_id, date)
OneRowPerKey(T) ==
    \A t1, t2 \in BagToSet(T) :
        /\ T[t1] = 1
        /\ (t1.series_id = t2.series_id /\ t1.date = t2.date) => t1 = t2

\* the call has what its data_type requires: value=... for an economic
\* point, at least one column for a financial one
WellFormedMerge ==
    \/ call.data_type = "economic" /\ "value" \in DOMAIN call.kwargs
    \/ call.data_type = "financial" /\ DOMAIN call.kwargs # {}

RECURSIVE BagOfChunks(_)
BagOfChunks(chunk_list) ==
    IF chunk_list = <<>> THEN EmptyBag
    ELSE BagOfSeq(Head(chunk_list)) (+) BagOfChunks(Tail(chunk_list))

\* C33: load_csv_in_chunks_to_bq hands every input row that has a valid date
\* to load_csv_to_bq in exactly one chunk, for every input and every
\* chunk_size_days, also when all rows share one date and when the latest
\* date lies a whole number of chunk lengths after the earliest.
C33_ChunksCoverEveryRow ==
    (call.fn = "load_csv_in_chunks_to_bq" /\ ret.status = "returned") =>
        BagOfChunks(ret.value.chunks) =
            BagOfSeq(SelectSeq(call.data_rows, LAMBDA row : row["date"] # NoDate))

\* C37: for every value of max_retries, 0 and negative values included,
\* make_request_with_backoff returns a successful response or raises: it
\* never returns without a response and never before one attempt was made.
C37_ResponseOrRaise ==
    (call.fn = "make_request_with_backoff" /\ ret.status # "pending") =>
        /\ ret.value.calls >= 1
        /\ ret.status = "returned" => ret.value.response = "200 OK"

\* ------------------------------------------------------------------------
\* properties of the watermark under the seeds command
\* ------------------------------------------------------------------------
\* the dates of the rows of the series in the financial table
StoredDates ==
    {financial_table[i]["date"] : i \in {j \in DOMAIN financial_table :
                                            financial_table[j]["series_id"] = Source}}

\* C34: the watermark is never ahead of the stored data: when the descriptor
\* of the series has last_fetched_date = D, the table holds a row of the
\* series dated D, and every row the file gave to a completed run with a
\* date up to D is in the table.
C34_WatermarkNotAheadOfData ==
    LET D == LastFetched(data_series, Source)
    IN  D # NoDate =>
            /\ D \in StoredDates
            /\ \A d \in csv_file : d <= D => d \in StoredDates

\* C36: save_metadata on a series that has a descriptor leaves the
\* last_fetched_date entry of its metadata map as it was.
C36_SaveMetadataKeepsWatermark ==
    [][(seeds_pc = "idle" /\ seeds_pc' = "rows" /\ Source \in DOMAIN data_series)
          => LastFetched(data_series', Source) = LastFetched(data_series, Source)]_vars

\* C35: the watermark is monotonic: once last_fetched_date is set, no step
\* of the operations run one at a time makes it null or moves it to an
\* earlier date.
C35_WatermarkMonotonic ==
    [][LastFetched(data_series, Source) # NoDate
          => /\ LastFetched(data_series', Source) # NoDate
             /\ LastFetched(data_series', Source) >= LastFetched(data_series, Source)]_vars

\* ------------------------------------------------------------------------
\* properties of executions for one series at the same time
\* ------------------------------------------------------------------------
\* the dates of the rows of the series in the economic table: the dates the
\* executions have merged
MergedDates == {t.date : t \in {u \in BagToSet(economic_table) : u.series_id = SameSeries}}

\* C38: no watermark update is lost: once the executions for the series have
\* all finished, last_fetched_date of its descriptor is the latest date any
\* of them merged.
C38_NoLostWatermarkUpdate ==
    ((\A p \in FlowRuns : run[p].pc = "idle") /\ MergedDates # {})
        => LastFetched(data_series, SameSeries) = Max(MergedDates)

\* ------------------------------------------------------------------------
\* the cache after an ingestion
\* ------------------------------------------------------------------------
\* an ingestion has stored a data point and no ingestion is under way
IngestionFinished ==
    /\ ingesting = {}
    /\ \E sid \in SeriesIds : Len(points[sid]) > Len(InitialPoints[sid])

\* C39: once an ingestion that stored a new data point of GDPC1 or CPIAUCSL
\* has finished, every query returns the result computed from the data
\* points stored now, those of the ingestion included, and not a list cached
\* before them, also when the descriptor was saved within the second of the
\* previous latest last_updated.
C39_FreshAfterIngestion ==
    [][(Resolves /\ IngestionFinished) => query'.returned = FreshResult]_vars

====
